---- MODULE Spec2Model ----
(***************************************************************************)
(* A model of the mempool reconnaissance tools of exp/tx-search:           *)
(*   tx_search.py    (search mode:   search_transactions)                  *)
(*   txpool_probe.py (classify mode: analyze)                              *)
(* Strings are sequences of one-character strings, so that stripping,      *)
(* prefixing, lower-casing, splitting and integer parsing are computed as  *)
(* the Python code computes them.                                          *)
(***************************************************************************)
EXTENDS Integers, Sequences, FiniteSets, TLC

VARIABLES
    program,            \* "search" (tx_search.py), "classify" (txpool_probe.py), "ingest" (fold of the search loop body)
    pc,                 \* position of the running script
    args_hashes,        \* args.hashes   (raw command-line string)
    args_addresses,     \* args.addresses
    args_hits,          \* args.hits
    args_sleep,         \* args.sleep
    args_jitter,        \* args.jitter
    target_hashes,      \* list of normalized target hashes
    target_addresses,   \* list of normalized target addresses
    found_transactions, \* dict: normalized hash -> tx_info   (found_by_hash)
    found_by_address,   \* dict: normalized address -> list of tx_info
    search_stats,       \* dict of the five counters
    hit_num,            \* the for-loop variable of the search loop
    rpc_calls,          \* number of gateway calls issued so far (observer)
    last_call,          \* outcome of the gateway call of the last round (observer)
    result,             \* the structured summary printed at the end
    feed,               \* "ingest": the (snapshot, hit index) pairs still to fold in
    fed,                \* "ingest": the pairs folded in so far, in that order
    inspect_hits,       \* INSPECT_HITS
    floor_gwei,         \* GAS_PRICE_FLOOR_GWEI
    inspect_polls,      \* iterations of the inspect loop started so far
    pending_nonces,     \* dict: address -> set of nonces seen pending
    queued_entries,     \* list of (address, nonce, summary)
    next_nonce_cache,   \* dict: address -> next nonce
    reasons_count,      \* dict: reason -> number of entries
    reasons_by_sender,  \* dict: address -> dict: reason -> number of entries
    classified,         \* number of entries of queued_entries classified so far
    verdicts,           \* the reason given to each classified entry, in order (observer)
    consolidated_limit, \* CONSOLIDATED_LIMIT
    basefee_seen,       \* the pending base fee the gateway reports when each entry is classified (observer)
    lookups,            \* dict: address -> outcomes of the next-nonce queries issued for it (observer)
    basefee_failed,     \* indexes of the classified entries whose base-fee call raised (observer)
    samples,            \* SAMPLES
    status_polls,       \* iterations of the status loop started so far
    max_pending,        \* running maximum of the pending count
    max_queued,         \* running maximum of the queued count
    status_seen,        \* the (pending, queued) counts of the status polls that were read (observer)
    exit_code           \* process exit status, -1 while running

statusVars == <<samples, status_polls, max_pending, max_queued, status_seen>>

classifyVars == <<inspect_hits, floor_gwei, inspect_polls, pending_nonces,
                  queued_entries, next_nonce_cache, reasons_count,
                  reasons_by_sender, classified, verdicts, consolidated_limit,
                  basefee_seen, lookups, basefee_failed, statusVars>>

searchVars == <<args_hashes, args_addresses, args_hits, args_sleep, args_jitter,
                target_hashes, target_addresses, found_transactions,
                found_by_address, search_stats, hit_num, last_call, result>>

----------------------------------------------------------------------------
(* Bounds of the model *)

MaxHits == 3
MaxFeed == 2
MaxInspect == 3
MaxLimit == 3

----------------------------------------------------------------------------
(* Strings *)

S0x == <<"0", "x">>

Whitespace == {" "}

RECURSIVE LStrip(_)
LStrip(s) ==
    IF s # <<>> /\ Head(s) \in Whitespace THEN LStrip(Tail(s)) ELSE s

RECURSIVE RStrip(_)
RStrip(s) ==
    IF s # <<>> /\ s[Len(s)] \in Whitespace
    THEN RStrip(SubSeq(s, 1, Len(s) - 1))
    ELSE s

\* str.strip()
Strip(s) == RStrip(LStrip(s))

\* str.startswith("0x")
StartsWith0x(s) == Len(s) >= 2 /\ s[1] = "0" /\ s[2] = "x"

UpperLetters ==
    <<"A", "B", "C", "D", "E", "F", "G", "H", "I", "J", "K", "L", "M",
      "N", "O", "P", "Q", "R", "S", "T", "U", "V", "W", "X", "Y", "Z">>
LowerLetters ==
    <<"a", "b", "c", "d", "e", "f", "g", "h", "i", "j", "k", "l", "m",
      "n", "o", "p", "q", "r", "s", "t", "u", "v", "w", "x", "y", "z">>

LowerChar(c) ==
    IF \E i \in 1..26 : UpperLetters[i] = c
    THEN LowerLetters[CHOOSE i \in 1..26 : UpperLetters[i] = c]
    ELSE c

\* str.lower()
Lower(s) == [i \in 1..Len(s) |-> LowerChar(s[i])]

\* str.split(","): the pieces between the commas, empty pieces included
RECURSIVE SplitComma(_, _)
SplitComma(s, cur) ==
    IF s = <<>> THEN <<cur>>
    ELSE IF Head(s) = "," THEN <<cur>> \o SplitComma(Tail(s), <<>>)
    ELSE SplitComma(Tail(s), Append(cur, Head(s)))

\* variant: the prefix is added without the startswith test
With0xAlways(t) == S0x \o t

\* if not s.startswith("0x"): s = "0x" + s
With0x(t) == IF StartsWith0x(t) THEN t ELSE S0x \o t

normalize_tx_hash(tx_hash) == Lower(With0x(Strip(tx_hash)))

normalize_address(addr) == Lower(With0x(Strip(addr)))

\* the loop of parse_tx_hashes / parse_tx_addresses: strip each piece, drop
\* the empty ones, normalize the others
RECURSIVE ParsePieces(_, _)
ParsePieces(pieces, norm) ==
    IF pieces = <<>> THEN <<>>
    ELSE IF Strip(Head(pieces)) = <<>> THEN ParsePieces(Tail(pieces), norm)
    ELSE IF norm = "hash"
    THEN <<normalize_tx_hash(Strip(Head(pieces)))>> \o ParsePieces(Tail(pieces), norm)
    ELSE <<normalize_address(Strip(Head(pieces)))>> \o ParsePieces(Tail(pieces), norm)

RECURSIVE NormalizeAll(_)
NormalizeAll(pieces) ==
    IF pieces = <<>> THEN <<>>
    ELSE <<normalize_tx_hash(Head(pieces))>> \o NormalizeAll(Tail(pieces))

\* variant: empty pieces are kept
parse_tx_hashes_KeepEmpty(tx_hashes_str) ==
    IF tx_hashes_str = <<>> THEN <<>>
    ELSE NormalizeAll(SplitComma(tx_hashes_str, <<>>))

\* parse_tx_hashes: split at commas, strip, drop empty pieces, normalize
parse_tx_hashes(tx_hashes_str) ==
    IF tx_hashes_str = <<>> THEN <<>>
    ELSE ParsePieces(SplitComma(tx_hashes_str, <<>>), "hash")

parse_tx_addresses(tx_addrs_str) ==
    IF tx_addrs_str = <<>> THEN <<>>
    ELSE ParsePieces(SplitComma(tx_addrs_str, <<>>), "addr")

----------------------------------------------------------------------------
(* Integers in text *)

DecDigits == {"0", "1", "2", "3", "4", "5", "6", "7", "8", "9"}
HexDigits == DecDigits \cup {"a", "b", "c", "d", "e", "f", "A", "B", "C", "D", "E", "F"}

DigitVal(c) ==
    CASE c = "0" -> 0 [] c = "1" -> 1 [] c = "2" -> 2 [] c = "3" -> 3
      [] c = "4" -> 4 [] c = "5" -> 5 [] c = "6" -> 6 [] c = "7" -> 7
      [] c = "8" -> 8 [] c = "9" -> 9
      [] c \in {"a", "A"} -> 10
      [] c \in {"b", "B"} -> 11
      [] c \in {"c", "C"} -> 12
      [] c \in {"d", "D"} -> 13
      [] c \in {"e", "E"} -> 14
      [] c \in {"f", "F"} -> 15
      [] OTHER -> 0

RECURSIVE DigitsValue(_, _, _)
DigitsValue(s, base, acc) ==
    IF s = <<>> THEN acc
    ELSE DigitsValue(Tail(s), base, acc * base + DigitVal(Head(s)))

Raised == [ok |-> FALSE, val |-> 0]
Parsed(n) == [ok |-> TRUE, val |-> n]

IsDecimal(t) == t # <<>> /\ \A i \in 1..Len(t) : t[i] \in DecDigits
IsHex(t) == t # <<>> /\ \A i \in 1..Len(t) : t[i] \in HexDigits
HasHexPrefix(t) == Len(t) >= 2 /\ t[1] = "0" /\ t[2] \in {"x", "X"}

DecLiteral(t) == IF IsDecimal(t) THEN Parsed(DigitsValue(t, 10, 0)) ELSE Raised
HexLiteral(t) == IF IsHex(t) THEN Parsed(DigitsValue(t, 16, 0)) ELSE Raised

\* a decimal literal of int(s, 0) has no leading zero unless it is zero
AutoLiteral(t) ==
    IF HasHexPrefix(t) THEN HexLiteral(SubSeq(t, 3, Len(t)))
    ELSE IF IsDecimal(t) /\ t[1] = "0" /\ (\E i \in 1..Len(t) : t[i] # "0") THEN Raised
    ELSE DecLiteral(t)

PrefixedHexLiteral(t) ==
    IF HasHexPrefix(t) THEN HexLiteral(SubSeq(t, 3, Len(t))) ELSE HexLiteral(t)

\* int(s): decimal digits, surrounding whitespace allowed; ValueError otherwise
IntBase10(s) == DecLiteral(Strip(s))

\* int(s, 16): hex digits with an optional 0x / 0X prefix
IntBase16(s) == PrefixedHexLiteral(Strip(s))

\* int(s, 0): the base is read from the prefix
IntBase0(s) == AutoLiteral(Strip(s))

\* tx_search.py: int(nonce_str, 0) if str(nonce_str).startswith("0x") else int(nonce_str)
SearchNonce(nonce_str) ==
    IF StartsWith0x(nonce_str) THEN IntBase0(nonce_str) ELSE IntBase10(nonce_str)

----------------------------------------------------------------------------
(* Python dicts and lists *)

Put(d, k, v) == [x \in (DOMAIN d) \cup {k} |-> IF x = k THEN v ELSE d[x]]

InList(x, l) == \E i \in 1..Len(l) : l[i] = x

Range(l) == {l[i] : i \in 1..Len(l)}

----------------------------------------------------------------------------
(* The gateway: RpcClient.call *)

\* What the HTTP exchange can produce: a transport error, a timeout, an HTTP
\* error status, or a JSON body with an "error" member (truthy or not) and a
\* "result" member.
NetFailures == {"transport", "timeout", "http"}

RawFail(kind) == [net |-> kind, error |-> FALSE, result |-> [kind |-> "none"]]
RawBody(err, res) == [net |-> "ok", error |-> err, result |-> res]

\* what the exchange was, as seen on the wire (observer)
GatewayOutcome(raw) ==
    IF raw.net # "ok" THEN raw.net
    ELSE IF raw.error THEN "rpc_error"
    ELSE "answered"

GatewayFailures == NetFailures \cup {"rpc_error"}

\* variant: the "error" member of the body is not looked at
RpcCallNoErrorCheck(raw) ==
    IF raw.net # "ok"
    THEN [raised |-> TRUE, result |-> [kind |-> "none"]]
    ELSE [raised |-> FALSE, result |-> raw.result]

\* RpcClient.call: raises on a failed exchange, on an HTTP error status and on a
\* truthy "error" member; returns data.get("result") otherwise
RpcCall(raw) ==
    IF raw.net # "ok" \/ raw.error
    THEN [raised |-> TRUE, result |-> [kind |-> "none"]]
    ELSE [raised |-> FALSE, result |-> raw.result]

----------------------------------------------------------------------------
(* txpool_inspect results as tx_search.py reads them *)

\* tx_data: a dict with a string "hash", a dict with a "hash" that is no
\* string, a dict without "hash", or no dict at all
TxDict(hash, tag) == [kind |-> "dict", hashKind |-> "str", hash |-> hash, tag |-> tag]
TxDictBadHash == [kind |-> "dict", hashKind |-> "nonstr", hash |-> <<>>, tag |-> "v1"]
TxDictNoHash == [kind |-> "dict", hashKind |-> "absent", hash |-> <<>>, tag |-> "v1"]
TxText == [kind |-> "str", hashKind |-> "absent", hash |-> <<>>, tag |-> "v1"]

Tx(nonce_str, tx_data) == [nonce |-> nonce_str, data |-> tx_data]

\* one key of the pending/queued map: an address with its nonce map
AddrItem(addr, txs) == [addr |-> addr, isDict |-> TRUE, txs |-> txs]
AddrNotDict(addr) == [addr |-> addr, isDict |-> FALSE, txs |-> <<>>]

PoolMap(items) == [isDict |-> TRUE, items |-> items]
PoolNotDict == [isDict |-> FALSE, items |-> <<>>]

Inspect(pending, queued) == [kind |-> "dict", pending |-> pending, queued |-> queued]
ResultNone == [kind |-> "none"]
ResultNotDict == [kind |-> "nondict"]

\* rpc.call(...) or {}
OrEmptyDict(res) ==
    IF res.kind = "none" THEN Inspect(PoolMap(<<>>), PoolMap(<<>>)) ELSE res

----------------------------------------------------------------------------
(* search_transactions: the body of one hit *)

TxInfo(status, addr, nonce, tx_data, hit) ==
    [status |-> status, address |-> addr, nonce |-> nonce, data |-> tx_data,
     found_in_hit |-> hit]

\* found_transactions[tx_hash] = tx_info
RecordHash(ft, tx_hash, tx_info) == Put(ft, tx_hash, tx_info)

\* variant: a match already in the list is not appended again
RecordAddressOnce(fba, addr, tx_info) ==
    IF addr \in DOMAIN fba
    THEN IF InList(tx_info, fba[addr]) THEN fba ELSE Put(fba, addr, Append(fba[addr], tx_info))
    ELSE Put(fba, addr, <<tx_info>>)

\* variant: the list is started afresh by every match
RecordAddressReset(fba, addr, tx_info) == Put(fba, addr, <<tx_info>>)

\* found_by_address[addr_normalized].append(tx_info)
RecordAddress(fba, addr, tx_info) ==
    IF addr \in DOMAIN fba
    THEN Put(fba, addr, Append(fba[addr], tx_info))
    ELSE Put(fba, addr, <<tx_info>>)

\* lines 213-230 / 244-261: build tx_info and match it against the targets
MatchTx(acc, status, addr_normalized, tx_hash, tx_info, tg) ==
    [acc EXCEPT
       !.ft = IF InList(tx_hash, tg.hashes)
              THEN RecordHash(acc.ft, tx_hash, tx_info) ELSE acc.ft,
       !.fba = IF InList(addr_normalized, tg.addresses)
               THEN RecordAddress(acc.fba, addr_normalized, tx_info)
               ELSE acc.fba]

\* lines 209-230 / 240-261: one (nonce_str, tx_data) item.  acc.raised is set
\* when a statement raises; nothing after it in the try block runs.
IngestTx(acc, status, addr_normalized, tx, hit, tg) ==
    IF acc.raised THEN acc
    ELSE IF tx.data.kind # "dict" \/ tx.data.hashKind = "absent" THEN acc
    ELSE IF tx.data.hashKind = "nonstr" THEN [acc EXCEPT !.raised = TRUE]
    ELSE IF ~SearchNonce(tx.nonce).ok THEN [acc EXCEPT !.raised = TRUE]
    ELSE MatchTx(acc, status, addr_normalized, normalize_tx_hash(tx.data.hash),
                 TxInfo(status, addr_normalized, SearchNonce(tx.nonce).val, tx.data, hit),
                 tg)

RECURSIVE IngestTxs(_, _, _, _, _, _)
IngestTxs(acc, status, addr_normalized, txs, hit, tg) ==
    IF txs = <<>> THEN acc
    ELSE IngestTxs(IngestTx(acc, status, addr_normalized, Head(txs), hit, tg),
                   status, addr_normalized, Tail(txs), hit, tg)

\* lines 205-207 / 236-238: the items of one map, in the order of the dict
RECURSIVE IngestItems(_, _, _, _, _)
IngestItems(acc, status, items, hit, tg) ==
    IF items = <<>> \/ acc.raised THEN acc
    ELSE IF ~Head(items).isDict THEN IngestItems(acc, status, Tail(items), hit, tg)
    ELSE IngestItems(IngestTxs(acc, status, normalize_address(Head(items).addr),
                               Head(items).txs, hit, tg),
                     status, Tail(items), hit, tg)

\* lines 202-230 / 233-261: one of the two maps of an inspect result; the
\* counter is raised before the map is walked
IngestMap(acc, status, counter, map, hit, tg) ==
    IF acc.raised \/ ~map.isDict THEN acc
    ELSE IngestItems([acc EXCEPT !.stats[counter] = @ + 1], status, map.items, hit, tg)

\* lines 202-261: fold one inspect result into the aggregated state
Ingest(acc, insp, hit, tg) ==
    IngestMap(IngestMap(acc, "pending", "pending_searches", insp.pending, hit, tg),
              "queued", "queued_searches", insp.queued, hit, tg)

\* variant: no except clause
ExceptNothing(acc) == acc

\* line 265-267: except Exception
Except(acc) ==
    IF acc.raised
    THEN [acc EXCEPT !.stats.failed_hits = @ + 1, !.raised = FALSE]
    ELSE acc

\* lines 198-263 after the call returned: a result that is no dict makes
\* insp.get raise after successful_hits was counted
Answered(acc, insp, hit, tg) ==
    IF insp.kind # "dict"
    THEN [acc EXCEPT !.stats.successful_hits = @ + 1, !.raised = TRUE]
    ELSE Ingest([acc EXCEPT !.stats.successful_hits = @ + 1], insp, hit, tg)

\* lines 196-267: the try block of one hit and its except clause
TryHit(acc, call, hit, tg) ==
    IF call.raised
    THEN Except([acc EXCEPT !.raised = TRUE])
    ELSE Except(Answered(acc, OrEmptyDict(call.result), hit, tg))

Acc(ft, fba, stats) == [ft |-> ft, fba |-> fba, stats |-> stats, raised |-> FALSE]

\* variant: stop only with more records than targets
FoundMoreThanAll(ft, hashes) ==
    hashes # <<>> /\ Cardinality(DOMAIN ft) > Len(hashes)

\* variant: an empty list of target hashes counts as all found
FoundAllOfAnyList(ft, hashes) == Cardinality(DOMAIN ft) = Len(hashes)

\* line 270: target_hashes and len(found_transactions) == len(target_hashes)
FoundAll(ft, hashes) ==
    hashes # <<>> /\ Cardinality(DOMAIN ft) = Len(hashes)

----------------------------------------------------------------------------
(* The inputs of the model *)

\* --hashes: absent, separators only, one hash, two distinct hashes (one
\* given in upper case without prefix), the same hash twice
HashArgs ==
    { <<>>,
      <<" ", ",", " ">>,
      <<"0", "x", "a">>,
      <<"0", "x", "a", ",", " ", "B">>,
      <<"0", "x", "a", ",", "0", "x", "A">> }

\* --addresses: absent, separators only, two addresses
AddrArgs ==
    { <<>>,
      <<",", " ">>,
      <<"c", "1", ",", "0", "x", "C", "2">> }

AddrC1 == <<"0", "x", "C", "1">>
AddrC2 == <<"0", "x", "c", "2">>

TxA1 == Tx(<<"7">>, TxDict(<<"0", "x", "A">>, "v1"))
TxA2 == Tx(<<"0", "x", "7">>, TxDict(<<"0", "x", "a">>, "v2"))
TxB == Tx(<<"9">>, TxDict(<<"0", "x", "b">>, "v1"))
TxBadNonce == Tx(<<"0", "X", "9">>, TxDict(<<"0", "x", "b">>, "v1"))
TxBadHash == Tx(<<"8">>, TxDictBadHash)
TxNoHash == Tx(<<"8">>, TxDictNoHash)
TxSummary == Tx(<<"6">>, TxText)
TxOther == Tx(<<"1">>, TxDict(<<"0", "x", "c">>, "v1"))

SnapEmpty == Inspect(PoolMap(<<>>), PoolMap(<<>>))
SnapA == Inspect(PoolMap(<<AddrItem(AddrC1, <<TxA1>>)>>), PoolMap(<<>>))
SnapB == Inspect(PoolMap(<<>>), PoolMap(<<AddrItem(AddrC2, <<TxB>>)>>))
SnapA2B ==
    Inspect(PoolMap(<<AddrItem(AddrC1, <<TxA2>>)>>),
            PoolMap(<<AddrItem(AddrC2, <<TxB>>)>>))
SnapAQueued == Inspect(PoolMap(<<>>), PoolMap(<<AddrItem(AddrC1, <<TxA1>>)>>))
SnapBadNonce ==
    Inspect(PoolMap(<<AddrItem(AddrC1, <<TxA1, TxBadNonce>>),
                      AddrItem(AddrC2, <<TxB>>)>>),
            PoolMap(<<>>))
SnapBadHash ==
    Inspect(PoolMap(<<AddrItem(AddrC1, <<TxBadHash>>)>>),
            PoolMap(<<AddrItem(AddrC2, <<TxB>>)>>))
SnapSkipped ==
    Inspect(PoolMap(<<AddrItem(AddrC1, <<TxNoHash, TxSummary, TxOther>>),
                      AddrNotDict(AddrC2)>>),
            PoolNotDict)

Snapshots ==
    { SnapEmpty, SnapA, SnapB, SnapA2B, SnapAQueued, SnapBadNonce, SnapBadHash,
      SnapSkipped }

\* every answer the gateway can give to txpool_inspect
InspectResponses ==
    { RawFail(k) : k \in NetFailures }
    \cup { RawBody(TRUE, SnapA2B) }
    \cup { RawBody(FALSE, r) : r \in Snapshots \cup {ResultNone, ResultNotDict} }

SleepArgs == { <<0, 0>>, <<1, 2>> }

----------------------------------------------------------------------------
(* tx_search.py: search_transactions *)

EmptyReasons == [nonce_gap |-> 0, below_floor |-> 0, under_basefee |-> 0, unknown |-> 0]

\* lines 138-139 with no status poll made
StatusIdle ==
    /\ samples = 0
    /\ status_polls = 0
    /\ max_pending = 0
    /\ max_queued = 0
    /\ status_seen = {}

\* the state of txpool_probe.py when another script runs
ClassifyIdle ==
    /\ StatusIdle
    /\ basefee_failed = {}
    /\ inspect_hits = 0
    /\ floor_gwei = 0
    /\ inspect_polls = 0
    /\ pending_nonces = <<>>
    /\ queued_entries = <<>>
    /\ next_nonce_cache = <<>>
    /\ reasons_count = EmptyReasons
    /\ reasons_by_sender = <<>>
    /\ classified = 0
    /\ verdicts = <<>>
    /\ consolidated_limit = 0
    /\ basefee_seen = <<>>
    /\ lookups = <<>>

EmptyStats ==
    [total_hits |-> 0, successful_hits |-> 0, failed_hits |-> 0,
     pending_searches |-> 0, queued_searches |-> 0]

NoResult == [printed |-> FALSE]

Targets == [hashes |-> target_hashes, addresses |-> target_addresses]

InitSearch ==
    /\ program = "search"
    /\ pc = "start"
    /\ args_hashes \in HashArgs
    /\ args_addresses \in AddrArgs
    /\ args_hits \in 0..MaxHits
    /\ \E sa \in SleepArgs : args_sleep = sa[1] /\ args_jitter = sa[2]
    /\ target_hashes = <<>>
    /\ target_addresses = <<>>
    /\ found_transactions = <<>>
    /\ found_by_address = <<>>
    /\ search_stats = EmptyStats
    /\ hit_num = 0
    /\ rpc_calls = 0
    /\ last_call = "none"
    /\ result = NoResult
    /\ exit_code = -1
    /\ feed = <<>>
    /\ fed = <<>>
    /\ ClassifyIdle

\* lines 159-166: parse the targets; no target at all is a usage error
ParseTargets ==
    /\ program = "search"
    /\ pc = "start"
    /\ target_hashes' = parse_tx_hashes(args_hashes)
    /\ target_addresses' = parse_tx_addresses(args_addresses)
    /\ IF target_hashes' = <<>> /\ target_addresses' = <<>>
       THEN pc' = "exited" /\ exit_code' = 1
       ELSE pc' = "loop" /\ exit_code' = exit_code
    /\ UNCHANGED <<program, args_hashes, args_addresses, args_hits, args_sleep,
                   args_jitter, found_transactions, found_by_address,
                   search_stats, hit_num, rpc_calls, last_call, result, feed, fed, classifyVars>>

\* sleep_briefly: random.randint(0, jitter) and time.sleep raise ValueError on
\* a negative jitter or a negative duration
SleepRaises(sleep_min, sleep_jitter, r) ==
    sleep_jitter < 0 \/ sleep_min + r < 0

\* lines 269-274: stop early, or sleep and go on
AfterHit(ft) ==
    IF FoundAll(ft, target_hashes)
    THEN pc' = "report" /\ exit_code' = exit_code
    ELSE \E r \in 0..(IF args_jitter < 0 THEN 0 ELSE args_jitter) :
           IF SleepRaises(args_sleep, args_jitter, r)
           THEN pc' = "crashed" /\ exit_code' = 1
           ELSE pc' = "loop" /\ exit_code' = exit_code

\* an exception that leaves the try statement ends the script with a traceback
HitResult(acc) ==
    /\ found_transactions' = acc.ft
    /\ found_by_address' = acc.fba
    /\ search_stats' = acc.stats
    /\ IF acc.raised
       THEN pc' = "crashed" /\ exit_code' = 1
       ELSE AfterHit(acc.ft)

\* lines 193-274: one iteration of the for loop
Hit(raw) ==
    /\ program = "search"
    /\ pc = "loop"
    /\ hit_num < args_hits
    /\ hit_num' = hit_num + 1
    /\ rpc_calls' = rpc_calls + 1
    /\ last_call' = GatewayOutcome(raw)
    /\ HitResult(TryHit(Acc(found_transactions, found_by_address,
                            [search_stats EXCEPT !.total_hits = @ + 1]),
                        RpcCall(raw), hit_num + 1, Targets))
    /\ UNCHANGED <<program, args_hashes, args_addresses, args_hits, args_sleep,
                   args_jitter, target_hashes, target_addresses, result, feed, fed, classifyVars>>

\* line 193: range(1, args.hits + 1) is exhausted
LoopDone ==
    /\ program = "search"
    /\ pc = "loop"
    /\ hit_num >= args_hits
    /\ pc' = "report"
    /\ UNCHANGED <<program, searchVars, rpc_calls, exit_code, feed, fed, classifyVars>>

RECURSIVE SumLens(_, _)
SumLens(d, keys) ==
    IF keys = {} THEN 0
    ELSE LET k == CHOOSE x \in keys : TRUE
         IN  Len(d[k]) + SumLens(d, keys \ {k})

\* variant: every target hash is listed as missing
MissingHashesAll(hashes, ft) == hashes

\* [tx_hash for tx_hash in target_hashes if tx_hash not in found_transactions]
MissingHashes(hashes, ft) ==
    SelectSeq(hashes, LAMBDA h : h \notin DOMAIN ft)

\* lines 353-370: the structured summary
Summary(hashes, addresses, ft, fba, stats) ==
    [printed |-> TRUE,
     search_stats |-> stats,
     count |-> Cardinality(DOMAIN ft),
     missing_count |-> IF hashes # <<>> THEN Len(hashes) - Cardinality(DOMAIN ft) ELSE 0,
     transactions |-> ft,
     missing_hashes |-> IF hashes # <<>> THEN MissingHashes(hashes, ft) ELSE <<>>,
     by_address_count |-> SumLens(fba, DOMAIN fba),
     addresses |-> [a \in DOMAIN fba |-> Len(fba[a])]]

\* lines 276-372: print the results; the script then ends with status 0
Report ==
    /\ program = "search"
    /\ pc = "report"
    /\ result' = Summary(target_hashes, target_addresses, found_transactions,
                         found_by_address, search_stats)
    /\ pc' = "done"
    /\ exit_code' = 0
    /\ UNCHANGED <<program, args_hashes, args_addresses, args_hits, args_sleep,
                   args_jitter, target_hashes, target_addresses,
                   found_transactions, found_by_address, search_stats, hit_num,
                   rpc_calls, last_call, feed, fed, classifyVars>>

SearchNext ==
    \/ ParseTargets
    \/ \E raw \in InspectResponses : Hit(raw)
    \/ LoopDone
    \/ Report

----------------------------------------------------------------------------
(* txpool_probe.py: helpers *)

GWEI == 1000000000

\* WEI_FLOOR = int(GAS_PRICE_FLOOR_GWEI * GWEI), for a floor in whole gwei
WEI_FLOOR == floor_gwei * GWEI

Max(a, b) == IF a >= b THEN a ELSE b

\* gateway results other than an inspect result
ResultText(text) == [kind |-> "str", text |-> text]
ResultBlock(base_fee) == [kind |-> "block", baseFeePerGas |-> base_fee]

\* hex_to_int on a string: int(s, 16) if s.startswith("0x") else int(s)
hex_to_int(text) ==
    IF StartsWith0x(text) THEN IntBase16(text) ELSE IntBase10(text)

\* variant: a failed call is taken for a base fee above every fee cap
BaseFeeOfFailureHigh(call) ==
    IF call.raised THEN GWEI
    ELSE IF call.result.kind # "block" THEN 0
    ELSE IF hex_to_int(call.result.baseFeePerGas).ok
    THEN hex_to_int(call.result.baseFeePerGas).val
    ELSE 0

\* get_pending_basefee_wei: 0 when the call fails, when the result is no
\* dict, and when the fee does not parse
BaseFeeOf(call) ==
    IF call.raised \/ call.result.kind # "block" THEN 0
    ELSE IF hex_to_int(call.result.baseFeePerGas).ok
    THEN hex_to_int(call.result.baseFeePerGas).val
    ELSE 0

get_pending_basefee_wei(raw) == BaseFeeOf(RpcCall(raw))

\* lines 220-224: rpc.call("eth_getTransactionCount", ...) or "0x0", parsed;
\* 0 on any exception
NextNonceOf(call) ==
    IF call.raised \/ call.result.kind # "str" THEN 0
    ELSE IF hex_to_int(call.result.text).ok THEN hex_to_int(call.result.text).val
    ELSE 0

\* variant: the cache is never consulted
NeverCached(cache, addr) == FALSE

\* line 218: if addr in next_nonce_cache
Cached(cache, addr) == addr \in DOMAIN cache

\* get_next_nonce: the cached value, or the answer of the query
get_next_nonce(cache, addr, raw) ==
    IF Cached(cache, addr) THEN cache[addr] ELSE NextNonceOf(RpcCall(raw))

\* lines 181-187 / 197-203: int(nonce_str, 0), then int(str, 16) or int(str);
\* an entry for which both raise is skipped
ProbeNonce(nonce_str) ==
    IF IntBase0(nonce_str).ok THEN IntBase0(nonce_str)
    ELSE IF StartsWith0x(nonce_str) THEN IntBase16(nonce_str)
    ELSE IntBase10(nonce_str)

----------------------------------------------------------------------------
(* The regular expressions  kw\s*[:=]\s*(0x[0-9a-fA-F]+|\d+)  with IGNORECASE *)

KwAt(text, i, kw) ==
    /\ i + Len(kw) - 1 <= Len(text)
    /\ \A j \in 1..Len(kw) : LowerChar(text[i + j - 1]) = kw[j]

\* \s* : the first position at or after i that holds no whitespace
RECURSIVE SkipSpace(_, _)
SkipSpace(text, i) ==
    IF i <= Len(text) /\ text[i] \in Whitespace THEN SkipSpace(text, i + 1) ELSE i

RECURSIVE RunEnd(_, _, _)
RunEnd(text, i, digits) ==
    IF i <= Len(text) /\ text[i] \in digits THEN RunEnd(text, i + 1, digits) ELSE i

IsHexLiteralAt(text, i) ==
    /\ i + 2 <= Len(text)
    /\ text[i] = "0"
    /\ LowerChar(text[i + 1]) = "x"
    /\ text[i + 2] \in HexDigits

\* the end (exclusive) of the number matched at i; i itself when none matches
NumberEnd(text, i) ==
    IF IsHexLiteralAt(text, i) THEN RunEnd(text, i + 2, HexDigits)
    ELSE RunEnd(text, i, DecDigits)

SepAt(text, j) == j <= Len(text) /\ text[j] \in {":", "="}

\* where the group starts when the pattern matches at i
GroupStart(text, i, kw) == SkipSpace(text, SkipSpace(text, i + Len(kw)) + 1)

MatchesAt(text, i, kw) ==
    /\ KwAt(text, i, kw)
    /\ SepAt(text, SkipSpace(text, i + Len(kw)))
    /\ NumberEnd(text, GroupStart(text, i, kw)) > GroupStart(text, i, kw)

MatchPositions(text, kw) == {i \in 1..Len(text) : MatchesAt(text, i, kw)}

FirstMatch(text, kw) == CHOOSE i \in MatchPositions(text, kw) :
                            \A k \in MatchPositions(text, kw) : i <= k

\* pat.search(text).group(1)
Group1At(text, g) == SubSeq(text, g, NumberEnd(text, g) - 1)

Group1(text, kw) == Group1At(text, GroupStart(text, FirstMatch(text, kw), kw))

NotFound == [found |-> FALSE, ok |-> TRUE, val |-> 0]
FoundInt(parsed) == [found |-> TRUE, ok |-> parsed.ok, val |-> parsed.val]

\* parse_int_from_patterns: the first pattern that matches decides; hex_to_int
\* of its group may raise
RECURSIVE parse_int_from_patterns(_, _)
parse_int_from_patterns(text, patterns) ==
    IF patterns = <<>> THEN NotFound
    ELSE IF MatchPositions(text, Head(patterns)) # {}
    THEN FoundInt(hex_to_int(Group1(text, Head(patterns))))
    ELSE parse_int_from_patterns(text, Tail(patterns))

INSPECT_FEE_REGEXES ==
    << <<"f", "e", "e", "c", "a", "p">>,
       <<"m", "a", "x", "f", "e", "e", "p", "e", "r", "g", "a", "s">> >>
INSPECT_TIP_REGEXES ==
    << <<"t", "i", "p">>,
       <<"m", "a", "x", "p", "r", "i", "o", "r", "i", "t", "y", "f", "e", "e",
         "p", "e", "r", "g", "a", "s">> >>
INSPECT_GASPRICE_REGEXES ==
    << <<"g", "a", "s", "p", "r", "i", "c", "e">>,
       <<"g", "a", "s", "p", "r", "i", "c", "e">> >>

----------------------------------------------------------------------------
(* txpool_probe.py: analyze, the status loop *)

\* a "pending" or "queued" member of a txpool_status result: a string, a JSON
\* number, null, or no such member
CountText(t) == [kind |-> "str", text |-> t]
CountInt(n) == [kind |-> "int", val |-> n]
CountNull == [kind |-> "null", val |-> 0]
CountAbsent == [kind |-> "absent", val |-> 0]

ResultStatus(pending, queued) ==
    [kind |-> "status", pending |-> pending, queued |-> queued]

\* rpc.call("txpool_status") or {}
OrEmptyStatus(res) ==
    IF res.kind = "none" THEN ResultStatus(CountAbsent, CountAbsent) ELSE res

\* hex_to_int(status.get(key, 0)): 0 for None, an int as it is, a string parsed
StatusCount(v) ==
    IF v.kind = "str" THEN hex_to_int(v.text)
    ELSE IF v.kind = "int" THEN Parsed(v.val)
    ELSE Parsed(0)

\* lines 142-144 run to their end: the call returned, the result has .get,
\* and both counts parse
StatusRead(call) ==
    /\ ~call.raised
    /\ OrEmptyStatus(call.result).kind = "status"
    /\ StatusCount(OrEmptyStatus(call.result).pending).ok
    /\ StatusCount(OrEmptyStatus(call.result).queued).ok

PendingCount(call) == StatusCount(OrEmptyStatus(call.result).pending).val
QueuedCount(call) == StatusCount(OrEmptyStatus(call.result).queued).val

\* what became of one status poll (observer)
StatusOutcome(raw) ==
    IF GatewayOutcome(raw) # "answered" THEN GatewayOutcome(raw)
    ELSE IF StatusRead(RpcCall(raw)) THEN "answered"
    ELSE "unparsable"

\* variant: the last reading replaces the maximum
LastReading(cur, v) == v

\* lines 145-148: if p > max_pending: max_pending = p
RunningMax(cur, v) == IF v > cur THEN v ELSE cur

\* lines 140-151: one iteration of the status loop; after the last one analyze
\* goes on to the inspect loop
StatusPoll(raw) ==
    /\ program = "classify"
    /\ pc = "status"
    /\ status_polls < Max(1, samples)
    /\ status_polls' = status_polls + 1
    /\ rpc_calls' = rpc_calls + 1
    /\ last_call' = StatusOutcome(raw)
    /\ IF StatusRead(RpcCall(raw))
       THEN /\ max_pending' = RunningMax(max_pending, PendingCount(RpcCall(raw)))
            /\ max_queued' = RunningMax(max_queued, QueuedCount(RpcCall(raw)))
            /\ status_seen' = status_seen
                   \cup {<<PendingCount(RpcCall(raw)), QueuedCount(RpcCall(raw))>>}
       ELSE UNCHANGED <<max_pending, max_queued, status_seen>>
    /\ pc' = IF status_polls + 1 >= Max(1, samples) THEN "inspect" ELSE "status"
    /\ UNCHANGED <<program, args_hashes, args_addresses, args_hits, args_sleep,
                   args_jitter, target_hashes, target_addresses,
                   found_transactions, found_by_address, search_stats, hit_num,
                   result, feed, fed, exit_code, samples, inspect_hits,
                   floor_gwei, inspect_polls, pending_nonces, queued_entries,
                   next_nonce_cache, reasons_count, reasons_by_sender,
                   classified, verdicts, consolidated_limit, basefee_seen,
                   lookups, basefee_failed>>

----------------------------------------------------------------------------
(* txpool_probe.py: analyze, the inspect loop *)

\* variant: the set of an address holds the last nonce only
ReplaceNonces(pn, a, nonce) == Put(pn, a, {nonce})

\* s.add(nonce)
AddNonce(pn, a, nonce) == Put(pn, a, pn[a] \cup {nonce})

\* lines 180-188: the keys of one nonce map
RECURSIVE HarvestNonces(_, _, _)
HarvestNonces(pn, a, txs) ==
    IF txs = <<>> THEN pn
    ELSE IF ~ProbeNonce(Head(txs).nonce).ok THEN HarvestNonces(pn, a, Tail(txs))
    ELSE HarvestNonces(AddNonce(pn, a, ProbeNonce(Head(txs).nonce).val), a, Tail(txs))

\* pending_nonces.setdefault(a, set())
SetDefault(pn, a) == IF a \in DOMAIN pn THEN pn ELSE Put(pn, a, {})

\* lines 176-188: harvest pending nonces by address
RECURSIVE HarvestPending(_, _)
HarvestPending(pn, items) ==
    IF items = <<>> THEN pn
    ELSE IF ~Head(items).isDict
    THEN HarvestPending(SetDefault(pn, Lower(Head(items).addr)), Tail(items))
    ELSE HarvestPending(HarvestNonces(SetDefault(pn, Lower(Head(items).addr)),
                                      Lower(Head(items).addr), Head(items).txs),
                        Tail(items))

\* lines 196-204: the items of one nonce map
RECURSIVE CollectTxs(_, _, _)
CollectTxs(qe, a, txs) ==
    IF txs = <<>> THEN qe
    ELSE IF ~ProbeNonce(Head(txs).nonce).ok THEN CollectTxs(qe, a, Tail(txs))
    ELSE CollectTxs(Append(qe, <<a, ProbeNonce(Head(txs).nonce).val, Head(txs).data>>),
                    a, Tail(txs))

\* lines 193-204: collect queued entries
RECURSIVE CollectQueued(_, _)
CollectQueued(qe, items) ==
    IF items = <<>> THEN qe
    ELSE IF ~Head(items).isDict THEN CollectQueued(qe, Tail(items))
    ELSE CollectQueued(CollectTxs(qe, Lower(Head(items).addr), Head(items).txs),
                       Tail(items))

\* lines 174-188
HarvestMap(pn, map) == IF map.isDict THEN HarvestPending(pn, map.items) ELSE pn

\* lines 191-204
CollectMap(qe, map) == IF map.isDict THEN CollectQueued(qe, map.items) ELSE qe

\* lines 165-206: one iteration of the inspect loop.  A failed call skips the
\* iteration; a result that is no dict makes insp.get raise outside any try.
InspectAnswer(call) ==
    IF call.raised
    THEN /\ UNCHANGED <<pending_nonces, queued_entries, exit_code>>
         /\ pc' = pc
    ELSE IF OrEmptyDict(call.result).kind # "dict"
    THEN /\ UNCHANGED <<pending_nonces, queued_entries>>
         /\ pc' = "crashed"
         /\ exit_code' = 1
    ELSE /\ pending_nonces' = HarvestMap(pending_nonces, OrEmptyDict(call.result).pending)
         /\ queued_entries' = CollectMap(queued_entries, OrEmptyDict(call.result).queued)
         /\ UNCHANGED <<pc, exit_code>>

\* basefee_wei of line 166 is fetched and not used
InspectPoll(fee_raw, raw) ==
    /\ program = "classify"
    /\ pc = "inspect"
    /\ inspect_polls < Max(1, inspect_hits)
    /\ inspect_polls' = inspect_polls + 1
    /\ get_pending_basefee_wei(fee_raw) >= 0
    /\ rpc_calls' = rpc_calls + 2
    /\ last_call' = GatewayOutcome(raw)
    /\ InspectAnswer(RpcCall(raw))
    /\ UNCHANGED <<program, args_hashes, args_addresses, args_hits, args_sleep,
                   args_jitter, target_hashes, target_addresses,
                   found_transactions, found_by_address, search_stats, hit_num,
                   result, feed, fed, inspect_hits, floor_gwei,
                   next_nonce_cache, reasons_count, reasons_by_sender,
                   classified, verdicts, consolidated_limit, basefee_seen,
                   lookups, basefee_failed, statusVars>>

\* every list that holds each element of the set once
Orderings(S) ==
    {q \in [1..Cardinality(S) -> S] : \A i, j \in 1..Cardinality(S) : i # j => q[i] # q[j]}

\* variant: the list is kept as collected
KeepDuplicates(qe) == {qe}

\* lines 208-209: queued_entries = list({(a, n, s) for ...}); a set is listed
\* in an order the program does not choose
Dedup(qe) == Orderings(Range(qe))

UniqueEntries ==
    /\ program = "classify"
    /\ pc = "inspect"
    /\ inspect_polls >= Max(1, inspect_hits)
    /\ queued_entries' \in Dedup(queued_entries)
    /\ pc' = "classify"
    /\ UNCHANGED <<program, searchVars, rpc_calls, exit_code, feed, fed,
                   inspect_hits, floor_gwei, inspect_polls, pending_nonces,
                   next_nonce_cache, reasons_count, reasons_by_sender,
                   classified, verdicts, consolidated_limit, basefee_seen,
                   lookups, basefee_failed, statusVars>>

----------------------------------------------------------------------------
(* txpool_probe.py: analyze, the classification of the queued entries *)

\* pending_nonces.get(addr, set())
PendingFor(pn, addr) == IF addr \in DOMAIN pn THEN pn[addr] ELSE {}

\* line 233
has_all_prior(nn, nonce, pending_for_addr) ==
    \A n \in nn..(Max(nn, nonce) - 1) : n \in pending_for_addr

\* variant: every nonce above the next nonce counts as a gap
is_nonce_gap_AnyLater(nn, nonce, pending_for_addr) == nonce > nn

\* variant: only the next nonce itself is looked for among the pending
is_nonce_gap_NextMissing(nn, nonce, pending_for_addr) ==
    nonce > nn /\ nn \notin pending_for_addr

\* line 234
is_nonce_gap(nn, nonce, pending_for_addr) ==
    nonce > nn /\ ~has_all_prior(nn, nonce, pending_for_addr)

\* lines 240-242: one of the three conversions raises
PricingRaises(summary) ==
    \/ ~parse_int_from_patterns(summary, INSPECT_FEE_REGEXES).ok
    \/ ~parse_int_from_patterns(summary, INSPECT_TIP_REGEXES).ok
    \/ ~parse_int_from_patterns(summary, INSPECT_GASPRICE_REGEXES).ok

\* lines 249-253: the base fee is asked for only on this path
AsksBaseFee(summary) ==
    /\ ~parse_int_from_patterns(summary, INSPECT_GASPRICE_REGEXES).found
    /\ parse_int_from_patterns(summary, INSPECT_FEE_REGEXES).found

\* lines 244-253
PricingReason(summary, basefee_now) ==
    IF parse_int_from_patterns(summary, INSPECT_GASPRICE_REGEXES).found
    THEN IF parse_int_from_patterns(summary, INSPECT_GASPRICE_REGEXES).val < Max(WEI_FLOOR, 0)
         THEN "below_floor" ELSE "unknown"
    ELSE IF /\ parse_int_from_patterns(summary, INSPECT_FEE_REGEXES).found
            /\ parse_int_from_patterns(summary, INSPECT_FEE_REGEXES).val < basefee_now
    THEN "under_basefee"
    ELSE "unknown"

\* bucket[reason] = bucket.get(reason, 0) + 1
Bump(bucket, reason) ==
    Put(bucket, reason, (IF reason \in DOMAIN bucket THEN bucket[reason] ELSE 0) + 1)

\* reasons_by_sender.setdefault(addr, {})
BucketOf(rbs, addr) == IF addr \in DOMAIN rbs THEN rbs[addr] ELSE <<>>

\* lines 255-257
Tally(addr, reason) ==
    /\ reasons_count' = Bump(reasons_count, reason)
    /\ reasons_by_sender' = Put(reasons_by_sender, addr,
                                Bump(BucketOf(reasons_by_sender, addr), reason))
    /\ verdicts' = Append(verdicts, reason)
    /\ classified' = classified + 1
    /\ UNCHANGED <<pc, exit_code>>

Calls(asked) == IF asked THEN 1 ELSE 0

\* what became of a next-nonce query: lines 220-221 raised, or gave a value
LookupOutcome(call) ==
    IF call.raised THEN "failed"
    ELSE IF call.result.kind = "str" /\ ~hex_to_int(call.result.text).ok THEN "failed"
    ELSE "answered"

\* the queries get_next_nonce issues for addr: one when addr is not cached
Asked(seen, cache, addr, raw) ==
    IF Cached(cache, addr) THEN seen
    ELSE Put(seen, addr,
             Append(IF addr \in DOMAIN seen THEN seen[addr] ELSE <<>>,
                    LookupOutcome(RpcCall(raw))))

\* lines 229-257 for one entry, nn being the answer of get_next_nonce
ClassifyOne(addr, nonce, summary, nn, fee_raw) ==
    /\ next_nonce_cache' = Put(next_nonce_cache, addr, nn)
    /\ IF is_nonce_gap(nn, nonce, PendingFor(pending_nonces, addr))
       THEN /\ Tally(addr, "nonce_gap")
            /\ basefee_seen' = Append(basefee_seen, get_pending_basefee_wei(fee_raw))
            /\ rpc_calls' = rpc_calls + Calls(~Cached(next_nonce_cache, addr))
            /\ UNCHANGED basefee_failed
       ELSE IF PricingRaises(summary)
       THEN /\ pc' = "crashed"
            /\ exit_code' = 1
            /\ rpc_calls' = rpc_calls + Calls(~Cached(next_nonce_cache, addr))
            /\ UNCHANGED <<reasons_count, reasons_by_sender, verdicts, classified,
                           basefee_seen, basefee_failed>>
       ELSE /\ Tally(addr, PricingReason(summary, get_pending_basefee_wei(fee_raw)))
            /\ basefee_seen' = Append(basefee_seen, get_pending_basefee_wei(fee_raw))
            /\ rpc_calls' = rpc_calls + Calls(~Cached(next_nonce_cache, addr))
                                      + Calls(AsksBaseFee(summary))
            /\ basefee_failed' =
                   IF AsksBaseFee(summary) /\ RpcCall(fee_raw).raised
                   THEN basefee_failed \cup {classified + 1}
                   ELSE basefee_failed

ClassifyTuple(entry, nn_raw, fee_raw) ==
    ClassifyOne(entry[1], entry[2], entry[3],
                get_next_nonce(next_nonce_cache, entry[1], nn_raw), fee_raw)

ClassifyEntry(nn_raw, fee_raw) ==
    /\ program = "classify"
    /\ pc = "classify"
    /\ classified < Len(queued_entries)
    /\ ClassifyTuple(queued_entries[classified + 1], nn_raw, fee_raw)
    /\ lookups' = Asked(lookups, next_nonce_cache, queued_entries[classified + 1][1], nn_raw)
    /\ UNCHANGED <<program, searchVars, feed, fed, inspect_hits, floor_gwei,
                   inspect_polls, pending_nonces, queued_entries,
                   consolidated_limit, statusVars>>

\* lines 212-214 and 261
QueuedAddrs(qe) == {qe[i][1] : i \in 1..Len(qe)}
Addrs(pn, qe) == (DOMAIN pn) \cup QueuedAddrs(qe)

\* lines 286-287: summarize_addr asks for the next nonce of every address the
\* classification did not ask for
FillCache(cache, answers) ==
    [a \in (DOMAIN cache) \cup (DOMAIN answers) |->
        IF a \in DOMAIN cache THEN cache[a] ELSE NextNonceOf(RpcCall(answers[a]))]

\* None, or an integer
NoneInt == [some |-> FALSE, val |-> 0]
SomeInt(n) == [some |-> TRUE, val |-> n]

MinOf(S) == CHOOSE x \in S : \A y \in S : x <= y
MaxOf(S) == CHOOSE x \in S : \A y \in S : x >= y

\* pn[0] if pn else None, pn[-1] if pn else None, for the sorted list of S
MinOrNone(S) == IF S = {} THEN NoneInt ELSE SomeInt(MinOf(S))
MaxOrNone(S) == IF S = {} THEN NoneInt ELSE SomeInt(MaxOf(S))

\* lines 212-214: queued_nonces_by_addr.get(a, set())
QueuedNonces(qe, a) == {qe[i][2] : i \in {j \in 1..Len(qe) : qe[j][1] = a}}

\* lines 268-270: the first nonce from nn on that is not pending
RECURSIVE FirstGap(_, _)
FirstGap(nn, pending_for_addr) ==
    IF nn \in pending_for_addr THEN FirstGap(nn + 1, pending_for_addr) ELSE nn

\* variant: any queued nonce above the next nonce makes a gap
has_union_gap_AnyLater(nn, qn, first_gap) == \E q \in qn : q > nn

\* line 271
has_union_gap(nn, qn, first_gap) ==
    /\ \E q \in qn : q > nn
    /\ first_gap < (IF qn # {} THEN MinOf(qn) ELSE first_gap)

\* lines 263-284
summarize_addr(a, pn, qe, cache, rbs) ==
    [address |-> a,
     next_nonce |-> cache[a],
     pending_count |-> Cardinality(PendingFor(pn, a)),
     queued_count |-> Cardinality(QueuedNonces(qe, a)),
     pending_min |-> MinOrNone(PendingFor(pn, a)),
     pending_max |-> MaxOrNone(PendingFor(pn, a)),
     queued_min |-> MinOrNone(QueuedNonces(qe, a)),
     queued_max |-> MaxOrNone(QueuedNonces(qe, a)),
     first_gap_nonce |-> FirstGap(cache[a], PendingFor(pn, a)),
     has_union_nonce_gap |-> has_union_gap(cache[a], QueuedNonces(qe, a),
                                           FirstGap(cache[a], PendingFor(pn, a))),
     reasons |-> BucketOf(rbs, a)]

\* lines 286-287: one row per address, in the order the set lists them
ConsolidatedRows(order, pn, qe, cache, rbs) ==
    [i \in 1..Len(order) |-> summarize_addr(order[i], pn, qe, cache, rbs)]

\* the order of tuples under <
KeyLess(k1, k2) == k1[1] < k2[1] \/ (k1[1] = k2[1] /\ k1[2] < k2[2])

\* sorted(..., reverse=True) is stable: of two elements with equal keys the one
\* that came first stays first
RECURSIVE InsertDesc(_, _)
InsertDesc(sorted, x) ==
    IF sorted = <<>> THEN <<x>>
    ELSE IF KeyLess(Head(sorted).key, x.key) THEN <<x>> \o sorted
    ELSE <<Head(sorted)>> \o InsertDesc(Tail(sorted), x)

RECURSIVE SortInto(_, _)
SortInto(sorted, items) ==
    IF items = <<>> THEN sorted
    ELSE SortInto(InsertDesc(sorted, Head(items)), Tail(items))

SortedDesc(items) == SortInto(<<>>, items)

Items(keyed) == [i \in 1..Len(keyed) |-> keyed[i].item]

\* l[:n] for n >= 0
Take(l, n) == SubSeq(l, 1, IF n < Len(l) THEN n ELSE Len(l))

\* variant: rows are ranked by queued_count alone
RowKeyQueuedOnly(row) == <<row.queued_count, 0>>

\* line 319: key=lambda r: (r["queued_count"], r["pending_count"])
RowKey(row) == <<row.queued_count, row.pending_count>>

KeyedRows(rows) == [i \in 1..Len(rows) |-> [key |-> RowKey(rows[i]), item |-> rows[i]]]

\* lines 312-321
Consolidated(rows, limit) == Take(Items(SortedDesc(KeyedRows(rows))), limit)

\* the keys of reasons_by_sender in the order of their insertion: the senders
\* in the order of their first classified entry
RECURSIVE FirstSeen(_, _)
FirstSeen(qe, acc) ==
    IF qe = <<>> THEN acc
    ELSE IF InList(Head(qe)[1], acc) THEN FirstSeen(Tail(qe), acc)
    ELSE FirstSeen(Tail(qe), Append(acc, Head(qe)[1]))

RECURSIVE SumOver(_, _)
SumOver(f, keys) ==
    IF keys = {} THEN 0
    ELSE f[CHOOSE k \in keys : TRUE]
         + SumOver(f, keys \ {CHOOSE k \in keys : TRUE})

\* sum(counts.values())
Total(counts) == SumOver(counts, DOMAIN counts)

TopSendersLimit == 10

SenderTotals(senders, rbs) ==
    [i \in 1..Len(senders) |->
        [key |-> <<Total(rbs[senders[i]]), 0>>,
         item |-> <<senders[i], Total(rbs[senders[i]])>>]]

\* lines 303-310
TopSenders(qe, rbs) ==
    Take(Items(SortedDesc(SenderTotals(FirstSeen(qe, <<>>), rbs))), TopSendersLimit)

\* line 290
GapAddresses(rows) == Cardinality({i \in 1..Len(rows) : rows[i].has_union_nonce_gap})

\* lines 293-322: the printed summary, for the order in which the entries were
\* classified and the order in which the addresses were summarized
ProbeSummary(qe, addr_order, cache) ==
    [printed |-> TRUE,
     samples |-> samples,
     inspect_hits |-> inspect_hits,
     max_pending |-> max_pending,
     max_queued |-> max_queued,
     gas_price_floor_gwei |-> floor_gwei,
     queued_unique |-> Len(qe),
     queued_reasons |-> reasons_count,
     synthesized_nonce_gap_addresses |->
        GapAddresses(ConsolidatedRows(addr_order, pending_nonces, qe, cache,
                                      reasons_by_sender)),
     top_senders |-> TopSenders(qe, reasons_by_sender),
     consolidated_limit |-> consolidated_limit,
     consolidated |->
        Consolidated(ConsolidatedRows(addr_order, pending_nonces, qe, cache,
                                      reasons_by_sender),
                     consolidated_limit)]

\* the queries summarize_addr issues, one for every address not yet cached
RECURSIVE AskedAll(_, _, _)
AskedAll(seen, cache, answers) ==
    IF DOMAIN answers \subseteq DOMAIN seen THEN seen
    ELSE AskedAll(Asked(seen, cache, CHOOSE a \in DOMAIN answers \ DOMAIN seen : TRUE,
                        answers[CHOOSE a \in DOMAIN answers \ DOMAIN seen : TRUE]),
                  cache, answers)

\* lines 259-322: the consolidated view and the printed summary
ClassifyDone(answers, addr_order) ==
    /\ program = "classify"
    /\ pc = "classify"
    /\ classified = Len(queued_entries)
    /\ next_nonce_cache' = FillCache(next_nonce_cache, answers)
    /\ lookups' = AskedAll(lookups, next_nonce_cache, answers)
    /\ rpc_calls' = rpc_calls + Cardinality(DOMAIN answers)
    /\ result' = ProbeSummary(queued_entries, addr_order,
                              FillCache(next_nonce_cache, answers))
    /\ pc' = "done"
    /\ exit_code' = 0
    /\ UNCHANGED <<program, args_hashes, args_addresses, args_hits, args_sleep,
                   args_jitter, target_hashes, target_addresses,
                   found_transactions, found_by_address, search_stats, hit_num,
                   last_call, feed, fed, inspect_hits, floor_gwei,
                   inspect_polls, pending_nonces, queued_entries,
                   reasons_count, reasons_by_sender, classified, verdicts,
                   consolidated_limit, basefee_seen, basefee_failed, statusVars>>

----------------------------------------------------------------------------
(* Classify mode: what the gateway can answer *)

Text_feeCap10 == <<"f", "e", "e", "C", "a", "p", ":", " ", "1", "0">>
Text_tip0X1 == <<"t", "i", "p", ":", " ", "0", "X", "1">>
Text_plain == <<"t", "o", ":", " ", "0", "x", "9">>
Text_gasprice5_feeCap1 ==
    <<"g", "a", "s", "p", "r", "i", "c", "e", "=", "5", " ",
      "f", "e", "e", "C", "a", "p", ":", "1">>

ProbeC1 == <<"C", "1">>
ProbeC2 == <<"c", "2">>

\* c1 pending at nonce 3, queued at nonce 5
ProbeA ==
    Inspect(PoolMap(<<AddrItem(ProbeC1, <<Tx(<<"3">>, Text_plain)>>)>>),
            PoolMap(<<AddrItem(<<"c", "1">>, <<Tx(<<"5">>, Text_feeCap10)>>)>>))

\* c1 pending at nonce 4; c2 pending without a nonce map, queued at nonce 1
\* with a gas price and a fee cap in the summary
ProbeB ==
    Inspect(PoolMap(<<AddrItem(<<"c", "1">>, <<Tx(<<"0", "x", "4">>, Text_plain)>>),
                      AddrNotDict(ProbeC2)>>),
            PoolMap(<<AddrItem(ProbeC2, <<Tx(<<"1">>, Text_gasprice5_feeCap1)>>)>>))

\* no pending map; queued entries with an unreadable nonce and an unreadable tip
ProbeC ==
    Inspect(PoolNotDict,
            PoolMap(<<AddrItem(ProbeC1, <<Tx(<<"z">>, Text_plain),
                                          Tx(<<"5">>, Text_tip0X1)>>),
                      AddrNotDict(ProbeC2)>>))

ProbeResponses ==
    { RawFail(k) : k \in NetFailures }
    \cup { RawBody(TRUE, ProbeA) }
    \cup { RawBody(FALSE, r) : r \in {ProbeA, ProbeB, ProbeC, ResultNone, ResultNotDict} }

NonceResponses ==
    { RawFail("timeout"),
      RawBody(TRUE, ResultText(<<"0", "x", "3">>)),
      RawBody(FALSE, ResultNone),
      RawBody(FALSE, ResultText(<<"0", "x", "3">>)),
      RawBody(FALSE, ResultText(<<"6">>)) }

BaseFeeResponses ==
    { RawFail("timeout"),
      RawBody(FALSE, ResultNone),
      RawBody(FALSE, ResultBlock(<<"0", "x", "5">>)),
      RawBody(FALSE, ResultBlock(<<"0", "x", "1", "4">>)) }

FloorArgs == {0, 1}

\* CONSOLIDATED_LIMIT: no row, fewer rows than senders, more rows than senders
LimitArgs == {0, 1, MaxLimit}

\* lines 156-163: the state of analyze before the inspect loop, after a
\* status loop of one poll that could not be read
InitClassify ==
    /\ program = "classify"
    /\ pc = "inspect"
    /\ inspect_hits \in 0..MaxInspect
    /\ floor_gwei \in FloorArgs
    /\ inspect_polls = 0
    /\ pending_nonces = <<>>
    /\ queued_entries = <<>>
    /\ next_nonce_cache = <<>>
    /\ reasons_count = EmptyReasons
    /\ reasons_by_sender = <<>>
    /\ classified = 0
    /\ verdicts = <<>>
    /\ consolidated_limit \in LimitArgs
    /\ basefee_seen = <<>>
    /\ lookups = <<>>
    /\ basefee_failed = {}
    /\ samples = 1
    /\ status_polls = 1
    /\ max_pending = 0
    /\ max_queued = 0
    /\ status_seen = {}
    /\ args_hashes = <<>>
    /\ args_addresses = <<>>
    /\ args_hits = 0
    /\ args_sleep = 0
    /\ args_jitter = 0
    /\ target_hashes = <<>>
    /\ target_addresses = <<>>
    /\ found_transactions = <<>>
    /\ found_by_address = <<>>
    /\ search_stats = EmptyStats
    /\ hit_num = 0
    /\ rpc_calls = 0
    /\ last_call = "none"
    /\ result = NoResult
    /\ exit_code = -1
    /\ feed = <<>>
    /\ fed = <<>>

ClassifyNext ==
    \/ \E fee_raw \in BaseFeeResponses, raw \in ProbeResponses : InspectPoll(fee_raw, raw)
    \/ UniqueEntries
    \/ \E nn_raw \in NonceResponses, fee_raw \in BaseFeeResponses : ClassifyEntry(nn_raw, fee_raw)
    \/ \E answers \in [Addrs(pending_nonces, queued_entries) \ DOMAIN next_nonce_cache
                          -> NonceResponses],
          addr_order \in Orderings(Addrs(pending_nonces, queued_entries)) :
            ClassifyDone(answers, addr_order)

----------------------------------------------------------------------------
(* The loop body of search_transactions as a fold: lines 202-261 applied to a
   list of (snapshot, hit index) pairs, from the empty aggregated state *)

FeedItems == [insp : Snapshots, hit : 1..MaxFeed]

RECURSIVE SeqsUpTo(_, _)
SeqsUpTo(S, n) ==
    IF n = 0 THEN {<<>>}
    ELSE SeqsUpTo(S, n - 1)
         \cup {Append(q, x) : q \in {r \in SeqsUpTo(S, n - 1) : Len(r) = n - 1}, x \in S}

InitIngest ==
    /\ program = "ingest"
    /\ pc = "fold"
    /\ args_hashes = <<"0", "x", "a", ",", " ", "B">>
    /\ args_addresses = <<"c", "1", ",", "0", "x", "C", "2">>
    /\ args_hits = MaxFeed
    /\ args_sleep = 0
    /\ args_jitter = 0
    /\ target_hashes = parse_tx_hashes(args_hashes)
    /\ target_addresses = parse_tx_addresses(args_addresses)
    /\ found_transactions = <<>>
    /\ found_by_address = <<>>
    /\ search_stats = EmptyStats
    /\ hit_num = 0
    /\ rpc_calls = 0
    /\ last_call = "none"
    /\ result = NoResult
    /\ exit_code = -1
    /\ feed \in SeqsUpTo(FeedItems, MaxFeed) \ {<<>>}
    /\ fed = <<>>
    /\ ClassifyIdle

IngestResult(acc) ==
    /\ found_transactions' = acc.ft
    /\ found_by_address' = acc.fba
    /\ search_stats' = acc.stats

\* lines 202-261 on the next pair of the feed
IngestNext ==
    /\ program = "ingest"
    /\ pc = "fold"
    /\ feed # <<>>
    /\ IngestResult(Ingest(Acc(found_transactions, found_by_address, search_stats),
                           Head(feed).insp, Head(feed).hit, Targets))
    /\ hit_num' = Head(feed).hit
    /\ feed' = Tail(feed)
    /\ fed' = Append(fed, Head(feed))
    /\ UNCHANGED <<program, pc, args_hashes, args_addresses, args_hits, args_sleep,
                   args_jitter, target_hashes, target_addresses, rpc_calls,
                   last_call, result, exit_code, classifyVars>>

vars == <<program, pc, searchVars, rpc_calls, exit_code, feed, fed, classifyVars>>

Init == InitSearch \/ InitClassify

Next == SearchNext \/ ClassifyNext

Spec == Init /\ [][Next]_vars

\* The script is one thread; every gateway call returns or times out, so a
\* step that can be taken is taken.
FairSearchSpec == InitSearch /\ [][SearchNext]_vars /\ WF_vars(SearchNext)

IngestSpec == InitIngest /\ [][IngestNext]_vars

----------------------------------------------------------------------------
(* normalize_tx_hash and normalize_address on arbitrary strings *)

MaxLen == 3

\* characters that reach every branch: whitespace for strip(), "0" and "x"
\* for the prefix test, upper case for lower()
NormChars == {" ", "0", "x", "X", "a", "B"}

InitNormalize ==
    /\ program = "normalize"
    /\ pc = "raw"
    /\ args_hashes \in SeqsUpTo(NormChars, MaxLen)
    /\ args_addresses = args_hashes
    /\ args_hits = 0
    /\ args_sleep = 0
    /\ args_jitter = 0
    /\ target_hashes = <<>>
    /\ target_addresses = <<>>
    /\ found_transactions = <<>>
    /\ found_by_address = <<>>
    /\ search_stats = EmptyStats
    /\ hit_num = 0
    /\ rpc_calls = 0
    /\ last_call = "none"
    /\ result = NoResult
    /\ exit_code = -1
    /\ feed = <<>>
    /\ fed = <<>>
    /\ ClassifyIdle

NormalizeRest ==
    UNCHANGED <<program, args_hashes, args_addresses, args_hits, args_sleep,
                args_jitter, found_transactions, found_by_address,
                search_stats, hit_num, rpc_calls, last_call, result,
                exit_code, feed, fed, classifyVars>>

\* the two functions applied to the input string
NormalizeInput ==
    /\ program = "normalize"
    /\ pc = "raw"
    /\ target_hashes' = <<normalize_tx_hash(args_hashes)>>
    /\ target_addresses' = <<normalize_address(args_addresses)>>
    /\ pc' = "once"
    /\ NormalizeRest

\* the two functions applied to their own results
NormalizeOutput ==
    /\ program = "normalize"
    /\ pc = "once"
    /\ target_hashes' = <<normalize_tx_hash(target_hashes[1])>>
    /\ target_addresses' = <<normalize_address(target_addresses[1])>>
    /\ pc' = "twice"
    /\ NormalizeRest

NormalizeNext == NormalizeInput \/ NormalizeOutput

NormalizeSpec == InitNormalize /\ [][NormalizeNext]_vars

----------------------------------------------------------------------------
(* The inspect loop of analyze on a given sequence of snapshots *)

MaxHarvest == 3

\* what rpc.call("txpool_inspect") or {} can be when the call succeeds
HarvestSnapshots == {ProbeA, ProbeB, ProbeC, OrEmptyDict(ResultNone)}

InitHarvest ==
    /\ program = "harvest"
    /\ pc = "fold"
    /\ feed \in SeqsUpTo(HarvestSnapshots, MaxHarvest) \ {<<>>}
    /\ fed = <<>>
    /\ inspect_hits = Len(feed)
    /\ floor_gwei = 0
    /\ inspect_polls = 0
    /\ pending_nonces = <<>>
    /\ queued_entries = <<>>
    /\ next_nonce_cache = <<>>
    /\ reasons_count = EmptyReasons
    /\ reasons_by_sender = <<>>
    /\ classified = 0
    /\ verdicts = <<>>
    /\ consolidated_limit = 0
    /\ basefee_seen = <<>>
    /\ lookups = <<>>
    /\ basefee_failed = {}
    /\ StatusIdle
    /\ args_hashes = <<>>
    /\ args_addresses = <<>>
    /\ args_hits = 0
    /\ args_sleep = 0
    /\ args_jitter = 0
    /\ target_hashes = <<>>
    /\ target_addresses = <<>>
    /\ found_transactions = <<>>
    /\ found_by_address = <<>>
    /\ search_stats = EmptyStats
    /\ hit_num = 0
    /\ rpc_calls = 0
    /\ last_call = "none"
    /\ result = NoResult
    /\ exit_code = -1

HarvestRest ==
    UNCHANGED <<program, searchVars, rpc_calls, exit_code, inspect_hits,
                floor_gwei, next_nonce_cache, reasons_count, reasons_by_sender,
                classified, verdicts, consolidated_limit, basefee_seen, lookups,
                basefee_failed, statusVars>>

\* lines 173-204 on the next snapshot of the sequence
HarvestSnapshot ==
    /\ program = "harvest"
    /\ pc = "fold"
    /\ feed # <<>>
    /\ pending_nonces' = HarvestMap(pending_nonces, Head(feed).pending)
    /\ queued_entries' = CollectMap(queued_entries, Head(feed).queued)
    /\ inspect_polls' = inspect_polls + 1
    /\ feed' = Tail(feed)
    /\ fed' = Append(fed, Head(feed))
    /\ pc' = "fold"
    /\ HarvestRest

\* lines 208-209 after the last snapshot
HarvestUnique ==
    /\ program = "harvest"
    /\ pc = "fold"
    /\ feed = <<>>
    /\ queued_entries' \in Dedup(queued_entries)
    /\ pc' = "unique"
    /\ UNCHANGED <<feed, fed, inspect_polls, pending_nonces>>
    /\ HarvestRest

HarvestNext == HarvestSnapshot \/ HarvestUnique

HarvestSpec == InitHarvest /\ [][HarvestNext]_vars

----------------------------------------------------------------------------
(* analyze from its first line: the status loop, then the inspect loop *)

MaxSamples == 2

\* a failed call, an RPC error, null, a result without .get, counts as hex
\* strings, as a JSON number, missing, and a count that does not parse
StatusResponses ==
    { RawFail("timeout"),
      RawBody(TRUE, ResultStatus(CountText(<<"0", "x", "2">>), CountText(<<"0", "x", "1">>))),
      RawBody(FALSE, ResultNone),
      RawBody(FALSE, ResultNotDict),
      RawBody(FALSE, ResultStatus(CountText(<<"0", "x", "2">>), CountText(<<"0", "x", "1">>))),
      RawBody(FALSE, ResultStatus(CountInt(1), CountText(<<"3">>))),
      RawBody(FALSE, ResultStatus(CountText(<<"0", "x", "3">>), CountText(<<"0", "X", "4">>))),
      RawBody(FALSE, ResultStatus(CountNull, CountAbsent)) }

\* lines 135-139
InitPolls ==
    /\ program = "classify"
    /\ pc = "status"
    /\ samples \in 0..MaxSamples
    /\ status_polls = 0
    /\ max_pending = 0
    /\ max_queued = 0
    /\ status_seen = {}
    /\ inspect_hits \in 0..MaxInspect
    /\ floor_gwei = 1
    /\ inspect_polls = 0
    /\ pending_nonces = <<>>
    /\ queued_entries = <<>>
    /\ next_nonce_cache = <<>>
    /\ reasons_count = EmptyReasons
    /\ reasons_by_sender = <<>>
    /\ classified = 0
    /\ verdicts = <<>>
    /\ consolidated_limit = MaxLimit
    /\ basefee_seen = <<>>
    /\ lookups = <<>>
    /\ basefee_failed = {}
    /\ args_hashes = <<>>
    /\ args_addresses = <<>>
    /\ args_hits = 0
    /\ args_sleep = 0
    /\ args_jitter = 0
    /\ target_hashes = <<>>
    /\ target_addresses = <<>>
    /\ found_transactions = <<>>
    /\ found_by_address = <<>>
    /\ search_stats = EmptyStats
    /\ hit_num = 0
    /\ rpc_calls = 0
    /\ last_call = "none"
    /\ result = NoResult
    /\ exit_code = -1
    /\ feed = <<>>
    /\ fed = <<>>

\* the two loops, up to the deduplication that follows the last inspect poll
PollNext ==
    \/ \E raw \in StatusResponses : StatusPoll(raw)
    \/ \E fee_raw \in BaseFeeResponses, raw \in ProbeResponses : InspectPoll(fee_raw, raw)
    \/ UniqueEntries

PollSpec == InitPolls /\ [][PollNext]_vars

----------------------------------------------------------------------------
(* analyze from line 211 on, for one sender with any pending and queued nonces *)

MaxNonce == 6

\* the aggregate of the inspect loop for the sender c1: any set of pending
\* nonces, one or two queued nonces with summaries that show no price, listed
\* in either order
GapPending == SUBSET (3..(MaxNonce - 2))
GapQueued == {Q \in SUBSET (2..MaxNonce) : Cardinality(Q) \in {1, 2}}
GapEntries(Q) == Orderings({<<Lower(ProbeC1), n, Text_plain>> : n \in Q})

\* lines 208-214 reached after one status poll and one inspect poll
InitGaps ==
    /\ program = "classify"
    /\ pc = "classify"
    /\ \E P \in GapPending : pending_nonces = (Lower(ProbeC1) :> P)
    /\ \E Q \in GapQueued : queued_entries \in GapEntries(Q)
    /\ inspect_hits = 1
    /\ inspect_polls = 1
    /\ floor_gwei = 1
    /\ consolidated_limit = MaxLimit
    /\ next_nonce_cache = <<>>
    /\ reasons_count = EmptyReasons
    /\ reasons_by_sender = <<>>
    /\ classified = 0
    /\ verdicts = <<>>
    /\ basefee_seen = <<>>
    /\ lookups = <<>>
    /\ basefee_failed = {}
    /\ samples = 1
    /\ status_polls = 1
    /\ max_pending = 0
    /\ max_queued = 0
    /\ status_seen = {}
    /\ args_hashes = <<>>
    /\ args_addresses = <<>>
    /\ args_hits = 0
    /\ args_sleep = 0
    /\ args_jitter = 0
    /\ target_hashes = <<>>
    /\ target_addresses = <<>>
    /\ found_transactions = <<>>
    /\ found_by_address = <<>>
    /\ search_stats = EmptyStats
    /\ hit_num = 0
    /\ rpc_calls = 3
    /\ last_call = "answered"
    /\ result = NoResult
    /\ exit_code = -1
    /\ feed = <<>>
    /\ fed = <<>>

GapNext ==
    \/ \E nn_raw \in NonceResponses, fee_raw \in BaseFeeResponses : ClassifyEntry(nn_raw, fee_raw)
    \/ \E answers \in [Addrs(pending_nonces, queued_entries) \ DOMAIN next_nonce_cache
                          -> NonceResponses],
          addr_order \in Orderings(Addrs(pending_nonces, queued_entries)) :
            ClassifyDone(answers, addr_order)

GapSpec == InitGaps /\ [][GapNext]_vars

----------------------------------------------------------------------------
(* Properties of search mode *)

IsDistinct(l) == \A i, j \in 1..Len(l) : i # j => l[i] # l[j]

AllTargetsFound ==
    \A i \in 1..Len(target_hashes) : target_hashes[i] \in DOMAIN found_transactions

Hash_a == <<"0", "x", "a">>
Hash_b == <<"0", "x", "b">>

\* C1: with a non-empty list of distinct target hashes, once a round ends with
\* every target hash in found_transactions no further round is issued (no
\* further gateway call, hit or total_hits increment), and the summary then
\* printed lists no missing hash.
C1_EarlyExit ==
    [][(/\ program = "search"
        /\ target_hashes # <<>>
        /\ IsDistinct(target_hashes)
        /\ AllTargetsFound)
       => /\ hit_num' = hit_num
          /\ rpc_calls' = rpc_calls
          /\ search_stats'.total_hits = search_stats.total_hits
          /\ pc \in {"report", "done"}
          /\ (result'.printed =>
                result'.missing_hashes = <<>> /\ result'.missing_count = 0)]_vars

\* C1 witness: targets {a, b}, budget 3, a found in hit 1 and b in hit 2: the
\* run ended after two hits with nothing missing.
C1_Witness ==
    /\ program = "search"
    /\ pc = "done"
    /\ target_hashes = <<Hash_a, Hash_b>>
    /\ args_hits = 3
    /\ search_stats.total_hits = 2
    /\ rpc_calls = 2
    /\ found_transactions[Hash_a].found_in_hit = 1
    /\ found_transactions[Hash_b].found_in_hit = 2
    /\ result.missing_hashes = <<>>

\* C2: with target addresses and no target hashes, a run that has left the loop
\* has issued exactly args.hits rounds and gateway calls, and it leaves the
\* loop only for the report.
C2_AddressOnlyFullBudget ==
    (program = "search" /\ pc # "start" /\ target_hashes = <<>> /\ target_addresses # <<>>)
    => /\ pc \in {"loop", "report", "done"}
       /\ (pc \in {"report", "done"} =>
             /\ search_stats.total_hits = args_hits
             /\ rpc_calls = args_hits)

\* C2 witness: an address-only run that saw activity of a target address in a
\* round before the last, lost a round to a failure, and still ran all 3 rounds.
C2_Witness ==
    /\ program = "search"
    /\ pc = "done"
    /\ target_hashes = <<>>
    /\ args_hits = 3
    /\ search_stats.total_hits = 3
    /\ search_stats.failed_hits >= 1
    /\ \E a \in DOMAIN found_by_address :
         \E i \in 1..Len(found_by_address[a]) : found_by_address[a][i].found_in_hit = 1

\* C3: a round whose gateway call fails (transport error, timeout, HTTP error,
\* node-reported RPC error) adds one to failed_hits and none to
\* successful_hits, leaves found_transactions and found_by_address as they
\* were, issues exactly one call, and the loop goes on when rounds remain and
\* not every target hash is found.
C3_FailedRound ==
    [][(program = "search" /\ hit_num' = hit_num + 1 /\ last_call' \in GatewayFailures)
       => /\ search_stats'.failed_hits = search_stats.failed_hits + 1
          /\ search_stats'.successful_hits = search_stats.successful_hits
          /\ found_transactions' = found_transactions
          /\ found_by_address' = found_by_address
          /\ rpc_calls' = rpc_calls + 1
          /\ ((hit_num' < args_hits /\ ~(target_hashes # <<>> /\ AllTargetsFound'))
                => pc' = "loop")]_vars

\* C3 witness: the second round failed with a node-reported RPC error after
\* the first had found something, and the loop is ready for the third.
C3_Witness ==
    /\ program = "search"
    /\ pc = "loop"
    /\ hit_num = 2
    /\ hit_num < args_hits
    /\ last_call = "rpc_error"
    /\ search_stats.failed_hits = 1
    /\ DOMAIN found_transactions # {}
    /\ DOMAIN found_by_address # {}

\* C4: a search run with at least one target never issues more than args.hits
\* rounds, never ends by an uncaught error, and always reaches the end of the
\* report.
C4_Terminates ==
    /\ [](program = "search" => search_stats.total_hits <= args_hits /\ pc # "crashed")
    /\ ((program = "search" /\ pc = "loop") ~> (pc = "done" /\ result.printed))

\* C4 witness: a finished run all of whose 3 rounds went wrong in a different
\* way (gateway failure, result that is no dict, malformed entry).
C4_Witness ==
    /\ program = "search"
    /\ pc = "done"
    /\ args_hits = 3
    /\ search_stats.failed_hits = 3
    /\ search_stats.successful_hits = 2
    /\ DOMAIN found_transactions # {}

OnlySeparators(s) == \A i \in 1..Len(s) : s[i] \in {",", " "}

\* C5: a run whose --hashes and --addresses hold nothing but commas and
\* whitespace exits with a non-zero status before any gateway call; every
\* other run never exits with a non-zero status and ends with status 0.
C5_UsageError ==
    (program = "search" /\ pc # "start")
    => IF OnlySeparators(args_hashes) /\ OnlySeparators(args_addresses)
       THEN pc = "exited" /\ exit_code = 1 /\ rpc_calls = 0
       ELSE /\ pc \in {"loop", "report", "done"}
            /\ exit_code = (IF pc = "done" THEN 0 ELSE -1)

\* C5 witness: separators only in both options, exit status 1, no call made.
C5_Witness ==
    /\ program = "search"
    /\ pc = "exited"
    /\ exit_code = 1
    /\ rpc_calls = 0
    /\ args_hashes # <<>>
    /\ args_addresses # <<>>

\* C8: once a target hash has a found_transactions record, no later round
\* changes the record's found_in_hit.
C8_FoundInHitKept ==
    [][program = "search" =>
         \A h \in DOMAIN found_transactions :
            /\ h \in DOMAIN found_transactions'
            /\ found_transactions'[h].found_in_hit = found_transactions[h].found_in_hit]_vars

----------------------------------------------------------------------------
(* Properties of the ingest fold *)

RECURSIVE FoldIngest(_, _, _)
FoldIngest(acc, pairs, tg) ==
    IF pairs = <<>> THEN acc
    ELSE FoldIngest([Ingest(acc, Head(pairs).insp, Head(pairs).hit, tg) EXCEPT !.raised = FALSE],
                    Tail(pairs), tg)

Perms(n) == {p \in [1..n -> 1..n] : \A i, j \in 1..n : i # j => p[i] # p[j]}

Permuted(l, p) == [i \in 1..Len(l) |-> l[p[i]]]

FoldedInOrder(p) == FoldIngest(Acc(<<>>, <<>>, EmptyStats), Permuted(fed, p), Targets)

OwnHitIndexes(l) == \A i, j \in 1..Len(l) : i # j => l[i].hit # l[j].hit

Count(x, l) == Cardinality({i \in 1..Len(l) : l[i] = x})

SameBag(l1, l2) ==
    /\ Len(l1) = Len(l2)
    /\ \A i \in 1..Len(l1) : Count(l1[i], l1) = Count(l1[i], l2)

ReingestStep ==
    /\ program = "ingest"
    /\ fed # <<>>
    /\ feed # <<>>
    /\ fed' = Append(fed, Head(feed))
    /\ Head(feed).insp = fed[Len(fed)].insp

WithoutHit(info) ==
    [status |-> info.status, address |-> info.address, nonce |-> info.nonce,
     data |-> info.data]

FirstMatches(pair, a) ==
    IF a \in DOMAIN FoldIngest(Acc(<<>>, <<>>, EmptyStats), <<pair>>, Targets).fba
    THEN Len(FoldIngest(Acc(<<>>, <<>>, EmptyStats), <<pair>>, Targets).fba[a])
    ELSE 0

\* C7 as claimed: folding in the snapshot that was folded in just before (same
\* hit index) changes neither found_transactions nor found_by_address.
C7_TwiceIsOnce ==
    [][(ReingestStep /\ Head(feed).hit = fed[Len(fed)].hit)
       => /\ found_transactions' = found_transactions
          /\ found_by_address' = found_by_address]_vars

\* C7 amended: folding in the snapshot that was folded in just before keeps
\* the set of found hashes and the status, address, nonce and data of every
\* record (the whole record when the hit index is the same), and appends to
\* the list of every target address the snapshot's matches once more.
C7_TwiceKeepsRecordsAppendsMatches ==
    [][ReingestStep
       => /\ DOMAIN found_transactions' = DOMAIN found_transactions
          /\ \A h \in DOMAIN found_transactions :
               WithoutHit(found_transactions'[h]) = WithoutHit(found_transactions[h])
          /\ (Head(feed).hit = fed[Len(fed)].hit => found_transactions' = found_transactions)
          /\ DOMAIN found_by_address' = DOMAIN found_by_address
          /\ \A a \in DOMAIN found_by_address :
               /\ Len(found_by_address'[a]) = Len(found_by_address[a]) + FirstMatches(Head(feed), a)
               /\ SubSeq(found_by_address'[a], 1, Len(found_by_address[a])) = found_by_address[a]]_vars

\* C7 witness: the same snapshot, with matches by hash and by address, was
\* folded in twice under one hit index.
C7_Witness ==
    /\ program = "ingest"
    /\ Len(fed) = 2
    /\ fed[1] = fed[2]
    /\ fed[1].insp = SnapA2B
    /\ DOMAIN found_transactions = {Hash_a, Hash_b}
    /\ Len(found_by_address[normalize_address(AddrC1)]) = 2

----------------------------------------------------------------------------
(* Properties of the aggregation and of the classification *)

IsPrefix(l1, l2) == Len(l1) <= Len(l2) /\ SubSeq(l2, 1, Len(l1)) = l1

\* C9: no step of a run shrinks the aggregated state.  In search mode every
\* found hash stays found and no found_by_address list gets shorter; in
\* classify mode every address keeps every nonce of its pending_nonces set and
\* every collected queued entry stays in queued_entries (a round extends the
\* list, the final de-duplication keeps each distinct entry).
C9_OnlyGrows ==
    [][/\ (program = "search" =>
             /\ DOMAIN found_transactions \subseteq DOMAIN found_transactions'
             /\ \A a \in DOMAIN found_by_address :
                  /\ a \in DOMAIN found_by_address'
                  /\ Len(found_by_address'[a]) >= Len(found_by_address[a]))
       /\ (program = "classify" =>
             /\ \A a \in DOMAIN pending_nonces :
                  /\ a \in DOMAIN pending_nonces'
                  /\ pending_nonces[a] \subseteq pending_nonces'[a]
             /\ Range(queued_entries) \subseteq Range(queued_entries')
             /\ (pc' = "inspect" => IsPrefix(queued_entries, queued_entries')))]_vars

Entry_c1_5_feeCap == << <<"c", "1">>, 5, Text_feeCap10 >>

\* C9 witness: the first round collected a pending nonce and a queued entry of
\* c1, the second saw another pending nonce and another queued entry, the third
\* timed out: everything collected is still there.
C9_Witness ==
    /\ program = "classify"
    /\ pc = "inspect"
    /\ inspect_polls = 3
    /\ last_call = "timeout"
    /\ <<"c", "1">> \in DOMAIN pending_nonces
    /\ pending_nonces[<<"c", "1">>] = {3, 4}
    /\ Len(queued_entries) = 2
    /\ queued_entries[1] = Entry_c1_5_feeCap

NonceGapCondition(addr, nonce) ==
    /\ nonce > next_nonce_cache[addr]
    /\ \E n \in next_nonce_cache[addr]..(nonce - 1) :
         n \notin PendingFor(pending_nonces, addr)

\* C10: a classified entry (address, nonce, summary) has the reason nonce_gap
\* exactly when nonce is above the next nonce of the address and some nonce
\* from the next nonce up to nonce - 1 is missing from the pending nonces of
\* the address, whatever prices its summary shows.
C10_NonceGapIff ==
    program = "classify" =>
        \A i \in 1..Len(verdicts) :
            (verdicts[i] = "nonce_gap")
                <=> NonceGapCondition(queued_entries[i][1], queued_entries[i][2])

\* C10 witness: c1 has next nonce 3 and pending nonce 3 only; its entry at
\* nonce 5 with a fee cap in the summary is a nonce_gap, and so is its entry at
\* nonce 5 with a tip in the summary.
C10_Witness ==
    /\ program = "classify"
    /\ <<"c", "1">> \in DOMAIN next_nonce_cache
    /\ <<"c", "1">> \in DOMAIN pending_nonces
    /\ next_nonce_cache[<<"c", "1">>] = 3
    /\ pending_nonces[<<"c", "1">>] = {3}
    /\ \E i \in 1..Len(verdicts) :
         queued_entries[i] = Entry_c1_5_feeCap /\ verdicts[i] = "nonce_gap"
    /\ verdicts = <<"nonce_gap", "nonce_gap">>

----------------------------------------------------------------------------
(* Properties of the pricing verdicts and of the lookups *)

GasPriceIn(summary) == parse_int_from_patterns(summary, INSPECT_GASPRICE_REGEXES)
FeeCapIn(summary) == parse_int_from_patterns(summary, INSPECT_FEE_REGEXES)

\* the reason the three rules give, base_fee being the pending base fee
ChainedReason(summary, base_fee) ==
    IF GasPriceIn(summary).found /\ GasPriceIn(summary).val < WEI_FLOOR
    THEN "below_floor"
    ELSE IF FeeCapIn(summary).found /\ FeeCapIn(summary).val < base_fee
    THEN "under_basefee"
    ELSE "unknown"

\* C11: a classified entry that is no nonce gap has the reason below_floor when
\* its summary shows a gas price below the floor, else under_basefee when its
\* summary shows a fee cap below the pending base fee (also when a gas price at
\* or above the floor is shown), else unknown.
C11_PricingChain ==
    program = "classify" =>
        \A i \in 1..Len(verdicts) :
            ~NonceGapCondition(queued_entries[i][1], queued_entries[i][2])
                => verdicts[i] = ChainedReason(queued_entries[i][3], basefee_seen[i])

LookupFailed(addr) ==
    addr \in DOMAIN lookups /\ \E k \in 1..Len(lookups[addr]) : lookups[addr][k] = "failed"

\* C12: every classified entry of an address whose next-nonce lookup failed has
\* the reason unknown.
C12_FailedLookupUnknown ==
    program = "classify" =>
        \A i \in 1..Len(verdicts) :
            LookupFailed(queued_entries[i][1]) => verdicts[i] = "unknown"

----------------------------------------------------------------------------
(* Properties of the printed summary of classify mode *)

\* the summary of a run that classified the same entries in the order qe and
\* summarized the same addresses in the order addr_order
SummaryFor(qe, addr_order) == ProbeSummary(qe, addr_order, next_nonce_cache)

\* C13: the printed queued_reasons, top_senders and consolidated lists are the
\* same, in the same order, for every run that ends with the same
\* pending_nonces, the same set of unique queued entries and the same lookup
\* answers, whatever order the entries and the addresses were taken in.
C13_SameStateSameSummary ==
    (program = "classify" /\ pc = "done") =>
        \A qe \in Orderings(Range(queued_entries)),
           addr_order \in Orderings(Addrs(pending_nonces, queued_entries)) :
            /\ SummaryFor(qe, addr_order).queued_reasons = result.queued_reasons
            /\ SummaryFor(qe, addr_order).top_senders = result.top_senders
            /\ SummaryFor(qe, addr_order).consolidated = result.consolidated

\* r1 comes strictly before r2 in the ranking of the consolidated table
Outranks(r1, r2) ==
    \/ r1.queued_count > r2.queued_count
    \/ (r1.queued_count = r2.queued_count /\ r1.pending_count > r2.pending_count)

RowOf(a) ==
    summarize_addr(a, pending_nonces, queued_entries, next_nonce_cache, reasons_by_sender)

Listed(rows) == {rows[i].address : i \in 1..Len(rows)}

\* C14: the consolidated table holds at most CONSOLIDATED_LIMIT rows, as many
\* as there are senders when the limit allows, each the row of a different
\* sender; no row outranks a row listed before it on (queued_count,
\* pending_count), and no omitted sender outranks a listed one.
C14_ConsolidatedRanked ==
    (program = "classify" /\ pc = "done") =>
        /\ Len(result.consolidated) <= consolidated_limit
        /\ Len(result.consolidated) <= Cardinality(Addrs(pending_nonces, queued_entries))
        /\ (Len(result.consolidated) = consolidated_limit
            \/ Len(result.consolidated) = Cardinality(Addrs(pending_nonces, queued_entries)))
        /\ \A i \in 1..Len(result.consolidated) :
             /\ result.consolidated[i].address \in Addrs(pending_nonces, queued_entries)
             /\ result.consolidated[i] = RowOf(result.consolidated[i].address)
             /\ \A j \in 1..Len(result.consolidated) :
                  /\ (i # j => result.consolidated[i].address # result.consolidated[j].address)
                  /\ (i < j => ~Outranks(result.consolidated[j], result.consolidated[i]))
             /\ \A a \in Addrs(pending_nonces, queued_entries) \ Listed(result.consolidated) :
                  ~Outranks(RowOf(a), result.consolidated[i])

\* C14 witness: c1 and c2 both have one queued nonce, c1 has two pending nonces
\* and c2 none; the table lists c1 before c2.
C14_Witness ==
    /\ program = "classify"
    /\ pc = "done"
    /\ Len(result.consolidated) = 2
    /\ result.consolidated[1].address = <<"c", "1">>
    /\ result.consolidated[1].queued_count = 1
    /\ result.consolidated[1].pending_count = 2
    /\ result.consolidated[2].queued_count = 1
    /\ result.consolidated[2].pending_count = 0

----------------------------------------------------------------------------
(* Properties of the report of search mode *)

\* the hash h is recorded by this step from an entry seen in this round
RecordedFromRound(h) ==
    /\ hit_num' = hit_num + 1
    /\ last_call' = "answered"
    /\ found_transactions'[h].found_in_hit = hit_num'
    /\ found_transactions'[h].status \in {"pending", "queued"}
    /\ found_transactions'[h].data.kind = "dict"
    /\ normalize_tx_hash(found_transactions'[h].data.hash) = h

\* C15: a finished search run has exit status 0 and reports every target hash
\* either with a found_by_hash record or in missing_hashes, never both and
\* never neither; and a hash gets a record only in a round whose answer showed
\* an entry with that hash in its pending or queued map.
C15_FoundOrMissing ==
    /\ []((program = "search" /\ pc = "done") =>
            /\ exit_code = 0
            /\ result.printed
            /\ \A i \in 1..Len(target_hashes) :
                 (target_hashes[i] \in DOMAIN result.transactions)
                    <=> ~InList(target_hashes[i], result.missing_hashes))
    /\ [][program = "search" =>
            \A h \in DOMAIN found_transactions' \ DOMAIN found_transactions :
                RecordedFromRound(h)]_vars

\* C15 witness: of the targets a and b, a was found and b, never seen in any
\* of the 3 rounds, is listed as missing; the exit status is 0.
C15_Witness ==
    /\ program = "search"
    /\ pc = "done"
    /\ exit_code = 0
    /\ target_hashes = <<Hash_a, Hash_b>>
    /\ search_stats.total_hits = 3
    /\ DOMAIN result.transactions = {Hash_a}
    /\ result.missing_hashes = <<Hash_b>>

----------------------------------------------------------------------------
(* Properties of the handling of malformed entries *)

\* an entry the search reads without an error: a dict with a string hash under
\* a nonce that parses
WellFormed(tx) ==
    tx.data.kind = "dict" /\ tx.data.hashKind = "str" /\ SearchNonce(tx.nonce).ok

\* the normalized hashes of the well-formed entries of one map
GoodHashesOf(map) ==
    IF ~map.isDict THEN {}
    ELSE UNION { { normalize_tx_hash(map.items[i].txs[j].data.hash) :
                     j \in {k \in 1..Len(map.items[i].txs) : WellFormed(map.items[i].txs[k])} } :
                 i \in {k \in 1..Len(map.items) : map.items[k].isDict} }

GoodHashes(insp) == GoodHashesOf(insp.pending) \cup GoodHashesOf(insp.queued)

\* C16 (search mode): after a snapshot was ingested, every well-formed entry
\* of it that shows a target hash has a found_transactions record, whichever
\* other entries of the snapshot are malformed.
C16_OnlyBadEntrySkipped ==
    program = "ingest" =>
        \A k \in 1..Len(fed) :
            \A h \in GoodHashes(fed[k].insp) :
                InList(h, target_hashes) => h \in DOMAIN found_transactions

----------------------------------------------------------------------------
(* Properties of the normalization functions *)

\* C17: normalization is idempotent: applying normalize_tx_hash or
\* normalize_address to a string that is already the result of the same
\* function returns it unchanged, whatever the input string was.
C17_NormalizeIdempotent ==
    [][(program = "normalize" /\ pc = "once") =>
          /\ target_hashes' = target_hashes
          /\ target_addresses' = target_addresses]_vars

\* the input " 0X" has gone through both applications: stripped, prefixed
\* because "0X" is not "0x", lowered, and unchanged by the second application
C17_Witness ==
    /\ program = "normalize"
    /\ pc = "twice"
    /\ args_hashes = <<" ", "0", "X">>
    /\ target_hashes = << <<"0", "x", "0", "x">> >>
    /\ target_addresses = << <<"0", "x", "0", "x">> >>

----------------------------------------------------------------------------
(* Properties of the next-nonce cache *)

\* C18: the next-nonce query is issued at most once per address: no address
\* ever has two queries on record, a value once cached is never replaced, and
\* classifying an entry of an address already cached issues no next-nonce query
\* (at most the base-fee call is made).
C18_OneLookupPerAddress ==
    /\ [](program = "classify" => \A a \in DOMAIN lookups : Len(lookups[a]) <= 1)
    /\ [][program = "classify" =>
            /\ \A a \in DOMAIN next_nonce_cache :
                   /\ a \in DOMAIN next_nonce_cache'
                   /\ next_nonce_cache'[a] = next_nonce_cache[a]
            /\ (/\ pc = "classify"
                /\ classified < Len(queued_entries)
                /\ queued_entries[classified + 1][1] \in DOMAIN next_nonce_cache)
               => /\ lookups' = lookups
                  /\ rpc_calls' <= rpc_calls + 1]_vars

\* a finished run in which c1 had two queued entries classified and one query
C18_Witness ==
    /\ program = "classify"
    /\ pc = "done"
    /\ Cardinality({i \in 1..Len(queued_entries) :
                        queued_entries[i][1] = Lower(ProbeC1)}) >= 2
    /\ Lower(ProbeC1) \in DOMAIN lookups
    /\ Len(lookups[Lower(ProbeC1)]) = 1
    /\ classified = Len(queued_entries)

----------------------------------------------------------------------------
(* Properties of the aggregate of the inspect loop *)

\* what one snapshot alone contributes
PendingOf(insp) == HarvestMap(<<>>, insp.pending)
TriplesOf(insp) == Range(CollectMap(<<>>, insp.queued))

\* the unions over a set of snapshots
UnionPendingAddrs(snaps) == UNION {DOMAIN PendingOf(s) : s \in snaps}
UnionPending(snaps, a) ==
    UNION {PendingOf(s)[a] : s \in {t \in snaps : a \in DOMAIN PendingOf(t)}}
UnionTriples(snaps) == UNION {TriplesOf(s) : s \in snaps}

\* C19: the aggregate is a set union over the snapshots ingested: pending_nonces
\* and the set of queued triples depend only on which snapshots were seen, not
\* on their order or on how often one was seen, and after deduplication each
\* triple is listed once however many rounds showed it.
C19_AggregateIsUnion ==
    program = "harvest" =>
        /\ DOMAIN pending_nonces = UnionPendingAddrs(Range(fed))
        /\ \A a \in DOMAIN pending_nonces :
               pending_nonces[a] = UnionPending(Range(fed), a)
        /\ Range(queued_entries) = UnionTriples(Range(fed))
        /\ pc = "unique" =>
               Len(queued_entries) = Cardinality(UnionTriples(Range(fed)))

\* ProbeB, ProbeA, ProbeB again: c1 pending at 3 and 4 out of two snapshots in
\* the other order, the queued triple of c2 seen in two rounds and listed once
C19_Witness ==
    /\ program = "harvest"
    /\ pc = "unique"
    /\ fed = <<ProbeB, ProbeA, ProbeB>>
    /\ pending_nonces[Lower(ProbeC1)] = {3, 4}
    /\ Len(queued_entries) = 2

----------------------------------------------------------------------------
(* Properties of the reason tallies *)

ReasonNames == {"nonce_gap", "below_floor", "under_basefee", "unknown"}

\* the tally of one reason summed over the senders
SenderSum(rbs, r) ==
    SumOver([a \in DOMAIN rbs |-> IF r \in DOMAIN rbs[a] THEN rbs[a][r] ELSE 0],
            DOMAIN rbs)

\* the tallies agree with the number of entries classified so far, and with
\* queued_unique in the printed summary
TalliesConsistent ==
    program = "classify" =>
        /\ Len(verdicts) = classified
        /\ \A i \in 1..Len(verdicts) : verdicts[i] \in ReasonNames
        /\ Total(reasons_count) = classified
        /\ \A r \in ReasonNames : SenderSum(reasons_by_sender, r) = reasons_count[r]
        /\ pc = "done" =>
               /\ classified = Len(queued_entries)
               /\ result.queued_unique = Total(result.queued_reasons)

\* C20: every unique queued entry receives exactly one reason and increments
\* one global tally and one tally of its sender: each entry the classifier
\* takes up is given a verdict, the four global tallies sum to the number of
\* entries (queued_unique at the end), and for every reason the per-sender
\* tallies sum to the global tally.
C20_EveryEntryOneReason ==
    /\ []TalliesConsistent
    /\ [][(/\ program = "classify"
           /\ pc = "classify"
           /\ classified < Len(queued_entries))
          => /\ classified' = classified + 1
             /\ Len(verdicts') = Len(verdicts) + 1
             /\ Total(reasons_count') = Total(reasons_count) + 1
             /\ SenderSum(reasons_by_sender', verdicts'[classified'])
                    = SenderSum(reasons_by_sender, verdicts'[classified']) + 1]_vars

----------------------------------------------------------------------------
(* Properties of the base-fee lookup at classification time *)

\* C21: when the base-fee call made for an entry fails (the entry has no
\* nonce gap, no gas price and a fee cap, so the call is made), the base fee is
\* taken as 0, the entry's reason is unknown and never under_basefee, and the
\* step that classifies it leaves the classifier running.
C21_FailedBaseFeeUnknown ==
    /\ [](program = "classify" =>
            \A i \in basefee_failed :
                /\ i <= Len(verdicts)
                /\ AsksBaseFee(queued_entries[i][3])
                /\ basefee_seen[i] = 0
                /\ verdicts[i] = "unknown")
    /\ [][(program = "classify" /\ basefee_failed' # basefee_failed)
          => /\ pc' = "classify"
             /\ classified' = classified + 1]_vars

\* the base-fee call failed for the fee-cap entry, which was classified
\* unknown; the run went on to classify another entry and printed the summary
C21_Witness ==
    /\ program = "classify"
    /\ pc = "done"
    /\ \E i \in basefee_failed :
           /\ i < Len(verdicts)
           /\ verdicts[i] = "unknown"

----------------------------------------------------------------------------
(* Properties of the two polling loops *)

\* C22: a classify run issues exactly SAMPLES status polls and then exactly
\* INSPECT_HITS inspect polls, for every budget from 0 on, and no status poll
\* is issued once an inspect poll has been issued.
C22_PollBudgets ==
    /\ [](program = "classify" /\ pc # "status" => status_polls = samples)
    /\ [](program = "classify" /\ pc \notin {"status", "inspect"}
            => inspect_polls = inspect_hits)
    /\ [][(program = "classify" /\ status_polls' # status_polls)
          => inspect_polls = 0 /\ inspect_polls' = 0]_vars

\* the maximum of the counts read so far, 0 when none was read
MaxRead(seen, k) == IF seen = {} THEN 0 ELSE MaxOf({c[k] : c \in seen})

\* C23: max_pending and max_queued never decrease; a status poll that fails or
\* cannot be read leaves both unchanged; throughout the phase and at its end
\* each equals the maximum of its count over the polls that were read, 0 when
\* none was.
C23_RunningMaxima ==
    /\ [](program = "classify" =>
            /\ max_pending = MaxRead(status_seen, 1)
            /\ max_queued = MaxRead(status_seen, 2))
    /\ [][program = "classify" =>
            /\ max_pending' >= max_pending
            /\ max_queued' >= max_queued
            /\ (status_polls' # status_polls /\ last_call' # "answered")
               => /\ max_pending' = max_pending
                  /\ max_queued' = max_queued]_vars

\* two polls were read, (2, 1) and then (1, 3): the second raised max_queued
\* and left max_pending at the larger earlier reading
C23_Witness ==
    /\ program = "classify"
    /\ pc = "inspect"
    /\ samples = 2
    /\ status_seen = {<<2, 1>>, <<1, 3>>}
    /\ max_pending = 2
    /\ max_queued = 3

----------------------------------------------------------------------------
(* Properties of the consolidated rows *)

\* the first nonce at or after nn that is not in the set P
LeastAbsent(nn, P) ==
    CHOOSE n \in nn..(nn + Cardinality(P)) :
        n \notin P /\ \A m \in nn..(n - 1) : m \in P

\* some queued nonce of a is above its next nonce, and the first nonce from the
\* next nonce on that is not pending lies below every queued nonce of a
UnionGapCondition(a) ==
    /\ \E i \in 1..Len(queued_entries) :
           queued_entries[i][1] = a /\ queued_entries[i][2] > next_nonce_cache[a]
    /\ \A i \in 1..Len(queued_entries) :
           queued_entries[i][1] = a =>
               LeastAbsent(next_nonce_cache[a], PendingFor(pending_nonces, a))
                   < queued_entries[i][2]

\* C24: in every row of the consolidated table first_gap_nonce is the first
\* nonce at or after next_nonce that is absent from the sender's pending set,
\* and has_union_nonce_gap is true exactly when the sender has a queued nonce
\* above next_nonce and first_gap_nonce is below its smallest queued nonce.
C24_UnionGapIff ==
    (program = "classify" /\ pc = "done") =>
        \A i \in 1..Len(result.consolidated) :
            /\ result.consolidated[i].next_nonce
                   = next_nonce_cache[result.consolidated[i].address]
            /\ result.consolidated[i].first_gap_nonce
                   = LeastAbsent(result.consolidated[i].next_nonce,
                                 PendingFor(pending_nonces, result.consolidated[i].address))
            /\ result.consolidated[i].has_union_nonce_gap
                   <=> UnionGapCondition(result.consolidated[i].address)

\* one table with both cases: c1 with next nonce 3, pending 3 and 4, queued at
\* 5 has no union gap (the first absent nonce is 5); c2 with next nonce 0,
\* nothing pending, queued at 1 has one
C24_Witness ==
    /\ program = "classify"
    /\ pc = "done"
    /\ Len(result.consolidated) = 2
    /\ result.consolidated[1].address = <<"c", "1">>
    /\ result.consolidated[1].next_nonce = 3
    /\ result.consolidated[1].first_gap_nonce = 5
    /\ result.consolidated[1].queued_min = SomeInt(5)
    /\ ~result.consolidated[1].has_union_nonce_gap
    /\ result.consolidated[2].next_nonce = 0
    /\ result.consolidated[2].first_gap_nonce = 0
    /\ result.consolidated[2].queued_min = SomeInt(1)
    /\ result.consolidated[2].has_union_nonce_gap

----------------------------------------------------------------------------
(* Properties of the round counters of search mode *)

\* C25: every round of search mode is counted as exactly one of successful or
\* failed: successful_hits + failed_hits = total_hits after every round, also
\* when the call succeeded and the snapshot raised while being ingested.
C25_HitsAddUp ==
    program = "search" =>
        search_stats.successful_hits + search_stats.failed_hits
            = search_stats.total_hits

\* C26: with a target hash list that names a hash more than once, once a round
\* ends with every distinct target hash in found_transactions no further round
\* is issued: no further hit, gateway call or total_hits increment.
C26_DuplicateTargetsEarlyExit ==
    [][(/\ program = "search"
        /\ target_hashes # <<>>
        /\ ~IsDistinct(target_hashes)
        /\ AllTargetsFound)
       => /\ hit_num' = hit_num
          /\ rpc_calls' = rpc_calls
          /\ search_stats'.total_hits = search_stats.total_hits]_vars

----------------------------------------------------------------------------
(* Properties of the counts in the summary of search mode *)

\* C27: in every printed search summary missing_count is the length of
\* missing_hashes, and count + missing_count is the number of target hashes.
C27_MissingCountConsistent ==
    (program = "search" /\ result.printed) =>
        /\ result.missing_count = Len(result.missing_hashes)
        /\ result.count + result.missing_count = Len(target_hashes)

----------------------------------------------------------------------------
(* Properties relating the rows to the verdicts of the entries *)

EntriesOf(a) == {i \in 1..Len(queued_entries) : queued_entries[i][1] = a}

\* C28: whenever a row of the consolidated table has has_union_nonce_gap =
\* true, every unique queued entry of that sender was classified nonce_gap.
C28_UnionGapAllNonceGap ==
    (program = "classify" /\ pc = "done") =>
        \A k \in 1..Len(result.consolidated) :
            result.consolidated[k].has_union_nonce_gap =>
                \A i \in EntriesOf(result.consolidated[k].address) :
                    verdicts[i] = "nonce_gap"

\* c1 with next nonce 3 and pending 3 only, queued at 5 and 6: the row shows a
\* union gap and both entries are nonce_gap
C28_Witness ==
    /\ program = "classify"
    /\ pc = "done"
    /\ Len(result.consolidated) = 1
    /\ result.consolidated[1].has_union_nonce_gap
    /\ result.consolidated[1].next_nonce = 3
    /\ pending_nonces[Lower(ProbeC1)] = {3}
    /\ result.consolidated[1].queued_min = SomeInt(5)
    /\ result.consolidated[1].queued_max = SomeInt(6)
    /\ verdicts = <<"nonce_gap", "nonce_gap">>

\* C29: whenever a queued entry of a sender is classified nonce_gap, the row
\* of that sender has has_union_nonce_gap = true, and
\* synthesized_nonce_gap_addresses counts every sender with such an entry.
C29_NonceGapImpliesUnionGap ==
    (program = "classify" /\ pc = "done") =>
        /\ \A k \in 1..Len(result.consolidated) :
               (\E i \in EntriesOf(result.consolidated[k].address) :
                     verdicts[i] = "nonce_gap")
                  => result.consolidated[k].has_union_nonce_gap
        /\ result.synthesized_nonce_gap_addresses
               >= Cardinality({queued_entries[i][1] :
                                   i \in {j \in 1..Len(verdicts) : verdicts[j] = "nonce_gap"}})

\* C30: in every row of the consolidated table queued_count equals the sum of
\* the row's per-reason tallies, the number of the sender's classified queued
\* entries, also when one (address, nonce) was seen with different summaries.
C30_QueuedCountIsTallySum ==
    (program = "classify" /\ pc = "done") =>
        \A k \in 1..Len(result.consolidated) :
            /\ result.consolidated[k].queued_count = Total(result.consolidated[k].reasons)
            /\ result.consolidated[k].queued_count
                   = Cardinality(EntriesOf(result.consolidated[k].address))

====
